---------------------------- MODULE Spec2Model ----------------------------
(***************************************************************************)
(* Glyph cache and texture packer of Speedy2D (src/font_cache.rs,          *)
(* src/texture_packer.rs).                                                 *)
(*                                                                         *)
(* Groups of variables:                                                    *)
(*   pk_*  a stand-alone TexturePacker and the log of its try_allocate     *)
(*         calls (SpecPacker);                                             *)
(*   q_*   inputs and results of QuantizedDimension / GlyphCacheKey        *)
(*         (SpecQuant).  Pixel values are fixed-point numbers in           *)
(*         hundredths of a pixel; f32 rounding error is not modelled;      *)
(*   at_*  a stand-alone GlyphCacheTexture (SpecAtlas);                     *)
(*   dr_*  the arguments and the output of get_renderer2d_actions          *)
(*         (SpecCrop draws one placed glyph; the cache specifications      *)
(*         record the output of their draws in dr_out).  f32 values are    *)
(*         exact fractions;                                                *)
(*   the remaining variables are the fields of GlyphCache plus the         *)
(*         observations of its callers (Spec: the public operations in     *)
(*         any order; SpecFrame: the documented per-frame order).          *)
(***************************************************************************)
EXTENDS Integers, Sequences, FiniteSets, TLC

VARIABLES
    pk_dim,         \* <<W, H>> the packer was constructed with
    pk_packer,      \* TexturePacker { areas }
    pk_log,         \* the try_allocate calls made so far: size and result
    q_mode,         \* "pixels": from_pixels on q_p; "keys": keys of two requests
    q_p,            \* a pixel value (1/100 px) given to from_pixels
    q_out,          \* <<its QuantizedDimension>>, <<>> before the call
    q_reqA,         \* a glyph request
    q_reqB,         \* a second request, same font, glyph and scale
    q_keyA,         \* <<GlyphCacheKey::from of q_reqA>>, <<>> before the call
    q_keyB,         \* <<GlyphCacheKey::from of q_reqB>>, <<>> before the call
    last_frame,     \* GlyphCache.last_frame
    this_frame,     \* GlyphCache.this_frame
    cache_entries,  \* GlyphCache.cache_entries: key -> GlyphCacheEntry
    textures,       \* GlyphCache.textures: the atlases, in index order
    glyph_box,      \* the rasterizer: key -> <<>> (no bounding box) or <<box>>
    phase,          \* "free", or the position in the frame: "mark", "draw"
    last_op,        \* what the last cache operation did and returned
    mark_hist,      \* key -> marked in <<this frame, the frame before, two before>>
    alternating,    \* key -> "idle", "alt" (marked every other frame so far),
                    \* "broken"; followed in SpecFrame only
    at_texture,     \* a stand-alone GlyphCacheTexture (SpecAtlas)
    at_last,        \* the last call on at_texture and what it returned
    dr_in,          \* the arguments of a stand-alone draw of a placed glyph
    dr_out,         \* <<what the last get_renderer2d_actions did and gave to
                    \* its runner>>, <<>> when another call followed
    clean           \* "dirty"; "prepared": prepare_for_draw returned Ok and no
                    \* mark_used followed; "repeated": prepare_for_draw ran
                    \* again in that state

pk_vars == <<pk_dim, pk_packer, pk_log>>
q_vars == <<q_mode, q_p, q_out, q_reqA, q_reqB, q_keyA, q_keyB>>
cache_vars == <<last_frame, this_frame, cache_entries, textures, glyph_box>>
obs_vars == <<phase, last_op, mark_hist, alternating, clean>>
at_vars == <<at_texture, at_last>>
dr_vars == <<dr_in, dr_out>>
vars == <<pk_vars, q_vars, cache_vars, obs_vars, at_vars, dr_vars>>

NoRect == [top_left |-> <<0, 0>>, bottom_right |-> <<0, 0>>]

(***************************************************************************)
(* Bounds of the model.                                                    *)
(***************************************************************************)
MaxCalls == 4
MaxPos == 160
MaxDelta == 6
NumKeys == 2

\* GlyphCacheTexture::SIZE
SIZE == 1024

(***************************************************************************)
(* URect (glam_rect): two corner points, as texture_packer.rs uses it.     *)
(***************************************************************************)
URectNew(top_left, bottom_right) ==
    [top_left |-> top_left, bottom_right |-> bottom_right]

Width(r) == r.bottom_right[1] - r.top_left[1]

Height(r) == r.bottom_right[2] - r.top_left[2]

IsZeroArea(r) == Width(r) = 0 \/ Height(r) = 0

(***************************************************************************)
(* TexturePacker                                                           *)
(***************************************************************************)
FreeRegionNew(width, height) ==
    [rect |-> URectNew(<<0, 0>>, <<width, height>>)]

TexturePackerNew(width, height) ==
    [areas |-> <<FreeRegionNew(width, height)>>]

\* A scan that takes a free region whether or not the allocation fits it.
RECURSIVE BestAreaIgnoresFit(_, _, _, _, _)
BestAreaIgnoresFit(areas, i, best_area, width, height) ==
    IF i > Len(areas) THEN best_area
    ELSE BestAreaIgnoresFit(areas, i + 1,
                            IF best_area = 0 THEN i ELSE best_area,
                            width, height)

\* The scan of try_allocate: index of the chosen free region, 0 for none.
RECURSIVE BestArea(_, _, _, _, _)
BestArea(areas, i, best_area, width, height) ==
    IF i > Len(areas) THEN best_area
    ELSE LET area == areas[i]
             area_width == Width(area.rect)
             area_height == Height(area.rect)
             skip == width > area_width \/ height > area_height
             update_best ==
                 IF best_area # 0
                 THEN /\ Width(areas[best_area].rect) >= area_width
                      /\ Height(areas[best_area].rect) >= area_height
                 ELSE TRUE
         IN  BestArea(areas, i + 1,
                      IF ~skip /\ update_best THEN i ELSE best_area,
                      width, height)

\* try_allocate after its zero-size early return.
AllocateBordered(packer, size) ==
    LET width == size[1] + 2
        height == size[2] + 2
        Split(best) ==
            LET top_left == packer.areas[best].rect.top_left
                bottom_right == <<top_left[1] + width, top_left[2] + height>>
                space_underneath ==
                    URectNew(<<top_left[1], bottom_right[2]>>, bottom_right)
                top_right == <<bottom_right[1], top_left[2]>>
                space_right ==
                    URectNew(<<bottom_right[1], top_left[2]>>, top_right)
                areas1 ==
                    IF IsZeroArea(space_right)
                    THEN [packer.areas EXCEPT ![best] = [rect |-> space_underneath]]
                    ELSE IF ~IsZeroArea(space_underneath)
                    THEN Append([packer.areas EXCEPT ![best] = [rect |-> space_right]],
                                [rect |-> space_underneath])
                    ELSE [packer.areas EXCEPT ![best] = [rect |-> space_right]]
            IN  [ok |-> TRUE,
                 rect |-> URectNew(<<top_left[1] + 1, top_left[2] + 1>>,
                                   <<bottom_right[1] - 1, bottom_right[2] - 1>>),
                 packer |-> [areas |-> areas1]]
        Allocate(best) ==
            IF best = 0
            THEN [ok |-> FALSE, rect |-> NoRect, packer |-> packer]
            ELSE Split(best)
    IN  Allocate(BestArea(packer.areas, 1, 0, width, height))

\* A try_allocate without the zero-size early return.
TryAllocateNoZeroCheck(packer, size) == AllocateBordered(packer, size)

\* A try_allocate that hands out the corner of the best region and leaves
\* the free regions as they were.
TryAllocateKeepsRegion(packer, size) ==
    LET Kept(r) == [ok |-> r.ok, rect |-> r.rect, packer |-> packer]
    IN  IF size[1] = 0 \/ size[2] = 0
        THEN [ok |-> TRUE, rect |-> URectNew(<<0, 0>>, size), packer |-> packer]
        ELSE Kept(AllocateBordered(packer, size))

\* A try_allocate that returns the allocation with its border.
TryAllocateReturnsBordered(packer, size) ==
    LET Grown(r) ==
            IF ~r.ok THEN r
            ELSE [r EXCEPT !.rect =
                      URectNew(<<r.rect.top_left[1] - 1, r.rect.top_left[2] - 1>>,
                               <<r.rect.bottom_right[1] + 1,
                                 r.rect.bottom_right[2] + 1>>)]
    IN  IF size[1] = 0 \/ size[2] = 0
        THEN [ok |-> TRUE, rect |-> URectNew(<<0, 0>>, size), packer |-> packer]
        ELSE Grown(AllocateBordered(packer, size))

TryAllocate(packer, size) ==
    IF size[1] = 0 \/ size[2] = 0
    THEN [ok |-> TRUE, rect |-> URectNew(<<0, 0>>, size), packer |-> packer]
    ELSE AllocateBordered(packer, size)

(***************************************************************************)
(* QuantizedDimension and GlyphCacheKey.  Pixel values in 1/100 px.        *)
(***************************************************************************)
\* An f32 to i32 cast: truncation toward zero.
AsI32(num, den) ==
    IF num >= 0 THEN num \div den ELSE -((-num) \div den)

\* A quantizer with a step of 1/100 px instead of 1/10 px.
FromPixelsFineStep(pixels) == [inner_value |-> AsI32(100 * pixels + 50, 100)]

\* ((10.0 * pixels) + 0.5) as i32
FromPixels(pixels) == [inner_value |-> AsI32(10 * pixels + 50, 100)]

\* inner_value / 10.0, in 1/100 px
ToPixels(q) == 10 * q.inner_value

\* A round that drops the fraction.
RoundF32TowardZero(pixels) ==
    IF pixels >= 0
    THEN (pixels \div 100) * 100
    ELSE -(((-pixels) \div 100) * 100)

\* f32::round: to the nearest integer, halves away from zero.
RoundF32(pixels) ==
    IF pixels >= 0
    THEN ((pixels + 50) \div 100) * 100
    ELSE -((((-pixels) + 50) \div 100) * 100)

\* pos - pos.round() on both axes, before it is quantized.
SubpixelOffset(req) ==
    LET pos == <<req.position[1] + req.screen_offset[1],
                 req.position[2] + req.screen_offset[2]>>
    IN  <<pos[1] - RoundF32(pos[1]), pos[2] - RoundF32(pos[2])>>

GlyphCacheKeyFrom(req) ==
    LET scale == FromPixels(req.scale)
        subpixel_offset == <<FromPixels(SubpixelOffset(req)[1]),
                             FromPixels(SubpixelOffset(req)[2])>>
    IN  [font_id |-> req.font_id,
         subpixel_offset |-> subpixel_offset,
         scale |-> scale,
         glyph_id |-> req.glyph_id]

(***************************************************************************)
(* GlyphCacheTexture: one atlas.                                           *)
(***************************************************************************)
Keys == 1..NumKeys

\* A map with no key, and a map with one key added or replaced.
EmptyMap == [k \in {} |-> 0]

MapPut(m, key, value) ==
    [k \in DOMAIN m \cup {key} |-> IF k = key THEN value ELSE m[k]]

\* BitmapRGBA of an atlas: the set of the copies made into it since it was
\* last zeroed, each the top-left corner and the size of the copied bitmap.
BitmapClear(bitmap) == {}

\* draw_bitmap_at: one row copy per row of the source; a bitmap without
\* pixels copies nothing.
DrawBitmapAt(bitmap, glyph_bitmap, position) ==
    IF glyph_bitmap.size[1] * glyph_bitmap.size[2] = 0
    THEN bitmap
    ELSE bitmap \cup {[top_left |-> position, size |-> glyph_bitmap.size]}

\* The two assertions of draw_bitmap_at, for a destination of dest_size:
\* TRUE when neither fails in any turn of the row loop.  Sizes in bytes.
DrawBitmapAtAssertions(dest_size, glyph_bitmap, position) ==
    LET src_len == glyph_bitmap.size[1] * glyph_bitmap.size[2] * 4
        dest_len == dest_size[1] * dest_size[2] * 4
        line_size_bytes == glyph_bitmap.size[1] * 4
        dest_line_stride_bytes == dest_size[1] * 4
        SrcPos(row) == row * line_size_bytes
        DestPos(row) ==
            position[2] * dest_line_stride_bytes + position[1] * 4
                + row * dest_line_stride_bytes
    IN  \A row \in 0..(glyph_bitmap.size[2] - 1) :
            SrcPos(row) < src_len
                => /\ src_len >= SrcPos(row) + line_size_bytes
                   /\ dest_len >= DestPos(row) + line_size_bytes

GlyphCacheTextureNew(handle) ==
    [bitmap |-> {},
     texture |-> handle,
     invalidated |-> FALSE,
     packer |-> TexturePackerNew(SIZE, SIZE),
     entries |-> EmptyMap]

\* A clear that leaves the packer as it is.
ClearKeepsPacker(t) ==
    [t EXCEPT !.invalidated = FALSE,
              !.entries = EmptyMap,
              !.bitmap = BitmapClear(@)]

\* A clear that leaves the placement map as it is.
ClearKeepsEntries(t) ==
    [t EXCEPT !.invalidated = FALSE,
              !.packer = TexturePackerNew(SIZE, SIZE),
              !.bitmap = BitmapClear(@)]

\* A clear that leaves the pixels as they are.
ClearKeepsBitmap(t) ==
    [t EXCEPT !.invalidated = FALSE,
              !.packer = TexturePackerNew(SIZE, SIZE),
              !.entries = EmptyMap]

Clear(t) ==
    [t EXCEPT !.invalidated = FALSE,
              !.packer = TexturePackerNew(SIZE, SIZE),
              !.entries = EmptyMap,
              !.bitmap = BitmapClear(@)]

\* A try_append_glyph that marks the atlas dirty before it asks the packer.
TryAppendGlyphDirtyFirst(t, key, glyph_bitmap) ==
    LET Append1(r) ==
            IF ~r.ok
            THEN [ok |-> FALSE, texture |-> [t EXCEPT !.invalidated = TRUE]]
            ELSE [ok |-> TRUE,
                  texture |->
                      [t EXCEPT !.packer = r.packer,
                                !.bitmap = DrawBitmapAt(@, glyph_bitmap, r.rect.top_left),
                                !.entries = MapPut(@, key, [texture_area |-> r.rect]),
                                !.invalidated = TRUE]]
    IN  Append1(TryAllocate(t.packer, glyph_bitmap.size))

\* try_append_glyph: a packer error leaves through `?` before anything is
\* written.
TryAppendGlyph(t, key, glyph_bitmap) ==
    LET Append1(r) ==
            IF ~r.ok
            THEN [ok |-> FALSE, texture |-> t]
            ELSE [ok |-> TRUE,
                  texture |->
                      [t EXCEPT !.packer = r.packer,
                                !.bitmap = DrawBitmapAt(@, glyph_bitmap, r.rect.top_left),
                                !.entries = MapPut(@, key, [texture_area |-> r.rect]),
                                !.invalidated = TRUE]]
    IN  Append1(TryAllocate(t.packer, glyph_bitmap.size))

\* A revalidate that leaves the dirty flag set after the upload.
RevalidateKeepsFlag(t, upload_ok) ==
    IF t.invalidated
    THEN [texture |-> t, uploaded |-> TRUE, ok |-> upload_ok]
    ELSE [texture |-> t, uploaded |-> FALSE, ok |-> TRUE]

\* A revalidate that uploads whether or not the atlas is dirty.
RevalidateAlwaysUploads(t, upload_ok) ==
    [texture |-> [t EXCEPT !.invalidated = FALSE],
     uploaded |-> TRUE, ok |-> upload_ok]

\* revalidate; upload_ok is the answer of the GPU if an upload is made.
Revalidate(t, upload_ok) ==
    IF t.invalidated
    THEN [texture |-> [t EXCEPT !.invalidated = FALSE],
          uploaded |-> TRUE, ok |-> upload_ok]
    ELSE [texture |-> t, uploaded |-> FALSE, ok |-> TRUE]

(***************************************************************************)
(* GlyphCache                                                              *)
(***************************************************************************)
\* The texture handle a successful context.new_texture() returns: one that
\* no atlas of `live` holds.
NewTextureHandle(live) ==
    LET used == {live[i].texture : i \in 1..Len(live)}
    IN  CHOOSE h \in 0..Cardinality(used) :
            h \notin used /\ \A g \in 0..(h - 1) : g \in used

\* add_to_cache that enters the key in this_frame only when it creates an entry.
AddToCacheMarksNewOnly(entries, this, key, box) ==
    IF key \in DOMAIN entries
    THEN [this_frame |-> this, cache_entries |-> entries, rasterized |-> FALSE]
    ELSE IF box = <<>> \/ box[1].size[1] > SIZE \/ box[1].size[2] > SIZE
         THEN [this_frame |-> this \cup {key}, cache_entries |-> entries,
               rasterized |-> FALSE]
         ELSE [this_frame |-> this \cup {key},
               cache_entries |->
                   MapPut(entries, key,
                          [glyph_bitmap |-> [size |-> box[1].size],
                           bounding_box_offset |-> box[1].top_left,
                           texture_id |-> <<>>]),
               rasterized |-> TRUE]

\* add_to_cache that rasterizes and stores the glyph also when the key has an
\* entry.
AddToCacheReplacesEntry(entries, this, key, box) ==
    IF box = <<>> \/ box[1].size[1] > SIZE \/ box[1].size[2] > SIZE
    THEN [this_frame |-> this \cup {key}, cache_entries |-> entries,
          rasterized |-> FALSE]
    ELSE [this_frame |-> this \cup {key},
          cache_entries |->
              MapPut(entries, key,
                     [glyph_bitmap |-> [size |-> box[1].size],
                      bounding_box_offset |-> box[1].top_left,
                      texture_id |-> <<>>]),
          rasterized |-> TRUE]

\* add_to_cache: box is what pixel_bounding_box() answers for the key.
AddToCache(entries, this, key, box) ==
    LET this1 == this \cup {key}
    IN  IF key \in DOMAIN entries
        THEN [this_frame |-> this1, cache_entries |-> entries, rasterized |-> FALSE]
        ELSE IF box = <<>>
             THEN [this_frame |-> this1, cache_entries |-> entries,
                   rasterized |-> FALSE]
             ELSE IF box[1].size[1] > SIZE \/ box[1].size[2] > SIZE
                  THEN [this_frame |-> this1, cache_entries |-> entries,
                        rasterized |-> FALSE]
                  ELSE [this_frame |-> this1,
                        cache_entries |->
                            MapPut(entries, key,
                                   [glyph_bitmap |-> [size |-> box[1].size],
                                    bounding_box_offset |-> box[1].top_left,
                                    texture_id |-> <<>>]),
                        rasterized |-> TRUE]

\* An on_new_frame_start that clears both generations.
OnNewFrameStartClearsBoth(last, this) == [last_frame |-> {}, this_frame |-> {}]

\* An on_new_frame_start that swaps without clearing.
OnNewFrameStartSwapOnly(last, this) == [last_frame |-> this, this_frame |-> last]

\* on_new_frame_start: last_frame.clear(), then swap.
OnNewFrameStart(last, this) ==
    LET cleared == {}
    IN  [last_frame |-> this, this_frame |-> cleared]

\* A try_append_to_existing_texture that offers the bitmap to the atlases
\* from the last one down.
RECURSIVE TryAppendToExistingTextureLastFirst(_, _, _, _)
TryAppendToExistingTextureLastFirst(all_textures, i, key, glyph_bitmap) ==
    LET at == Len(all_textures) - i + 1
        Step(r) ==
            IF r.ok
            THEN [ok |-> TRUE,
                  textures |-> [all_textures EXCEPT ![at] = r.texture],
                  texture_id |-> at - 1]
            ELSE TryAppendToExistingTextureLastFirst(all_textures, i + 1, key,
                                                     glyph_bitmap)
    IN  IF i > Len(all_textures)
        THEN [ok |-> FALSE, textures |-> all_textures, texture_id |-> 0]
        ELSE Step(TryAppendGlyph(all_textures[at], key, glyph_bitmap))

\* try_append_to_existing_texture, from atlas i on (1-based): the first atlas
\* that accepts the bitmap; texture_id is its 0-based index.
RECURSIVE TryAppendToExistingTexture(_, _, _, _)
TryAppendToExistingTexture(all_textures, i, key, glyph_bitmap) ==
    LET Step(r) ==
            IF r.ok
            THEN [ok |-> TRUE,
                  textures |-> [all_textures EXCEPT ![i] = r.texture],
                  texture_id |-> i - 1]
            ELSE TryAppendToExistingTexture(all_textures, i + 1, key, glyph_bitmap)
    IN  IF i > Len(all_textures)
        THEN [ok |-> FALSE, textures |-> all_textures, texture_id |-> 0]
        ELSE Step(TryAppendGlyph(all_textures[i], key, glyph_bitmap))

\* A try_insert_pending that appends the bitmaps and leaves the entries
\* without texture_id.
RECURSIVE TryInsertPendingForgetsId(_, _, _, _)
TryInsertPendingForgetsId(order, j, texs, entries) ==
    LET Step(key, r) ==
            IF ~r.ok
            THEN [ok |-> FALSE, textures |-> texs, cache_entries |-> entries]
            ELSE TryInsertPendingForgetsId(order, j + 1, r.textures, entries)
    IN  IF j > Len(order)
        THEN [ok |-> TRUE, textures |-> texs, cache_entries |-> entries]
        ELSE IF entries[order[j]].texture_id # <<>>
        THEN TryInsertPendingForgetsId(order, j + 1, texs, entries)
        ELSE Step(order[j],
                  TryAppendToExistingTexture(texs, 1, order[j],
                                             entries[order[j]].glyph_bitmap))

\* try_insert_pending: `order` is the iteration order of the entry map.
RECURSIVE TryInsertPending(_, _, _, _)
TryInsertPending(order, j, texs, entries) ==
    LET Step(key, r) ==
            IF ~r.ok
            THEN [ok |-> FALSE, textures |-> texs, cache_entries |-> entries]
            ELSE TryInsertPending(
                     order, j + 1, r.textures,
                     [entries EXCEPT ![key].texture_id = <<r.texture_id>>])
    IN  IF j > Len(order)
        THEN [ok |-> TRUE, textures |-> texs, cache_entries |-> entries]
        ELSE IF entries[order[j]].texture_id # <<>>
        THEN TryInsertPending(order, j + 1, texs, entries)
        ELSE Step(order[j],
                  TryAppendToExistingTexture(texs, 1, order[j],
                                             entries[order[j]].glyph_bitmap))

\* internal_rearrange_append_glyph; create_ok is the answer of the GPU if a
\* texture is created.  result: "ok", "err_create" or "err_internal".
InternalRearrangeAppendGlyph(current_textures, previous_textures, key, glyph_bitmap, create_ok) ==
    LET \* the new texture was pushed: append to it
        AppendToNew(current2, previous1, third) ==
            IF third.ok
            THEN [result |-> "ok",
                  current |-> [current2 EXCEPT ![Len(current2)] = third.texture],
                  previous |-> previous1, texture_id |-> Len(current2) - 1,
                  created |-> 1]
            ELSE [result |-> "err_internal", current |-> current2,
                  previous |-> previous1, texture_id |-> 0, created |-> 1]
        \* no atlas took the glyph: create one
        CreateNew(current1, previous1) ==
            IF ~create_ok
            THEN [result |-> "err_create", current |-> current1,
                  previous |-> previous1, texture_id |-> 0, created |-> 0]
            ELSE AppendToNew(
                     Append(current1,
                            GlyphCacheTextureNew(NewTextureHandle(current1 \o previous1))),
                     previous1,
                     TryAppendGlyph(
                         GlyphCacheTextureNew(NewTextureHandle(current1 \o previous1)),
                         key, glyph_bitmap))
        \* one atlas of the pool was pushed: append to it
        AppendToPopped(current1, previous1, second) ==
            IF second.ok
            THEN [result |-> "ok",
                  current |-> [current1 EXCEPT ![Len(current1)] = second.texture],
                  previous |-> previous1, texture_id |-> Len(current1) - 1,
                  created |-> 0]
            ELSE CreateNew(current1, previous1)
        AfterCurrent(first) ==
            IF first.ok
            THEN [result |-> "ok", current |-> first.textures,
                  previous |-> previous_textures, texture_id |-> first.texture_id,
                  created |-> 0]
            ELSE IF previous_textures # <<>>
            THEN AppendToPopped(
                     Append(current_textures,
                            previous_textures[Len(previous_textures)]),
                     SubSeq(previous_textures, 1, Len(previous_textures) - 1),
                     TryAppendGlyph(previous_textures[Len(previous_textures)],
                                    key, glyph_bitmap))
            ELSE CreateNew(current_textures, previous_textures)
    IN  AfterCurrent(TryAppendToExistingTexture(current_textures, 1, key, glyph_bitmap))

\* The `for (key, entry) in &mut all_entries` loop of the rebuild; the
\* create_fail_at-th texture creation of the call fails (0: none does).
RECURSIVE RearrangeAll(_, _, _, _, _, _, _)
RearrangeAll(order, j, current, previous, entries, created, create_fail_at) ==
    LET Step(key, r) ==
            IF r.result # "ok"
            THEN [result |-> r.result, current |-> r.current,
                  previous |-> r.previous, cache_entries |-> entries,
                  created |-> created + r.created]
            ELSE RearrangeAll(order, j + 1, r.current, r.previous,
                              [entries EXCEPT ![key].texture_id = <<r.texture_id>>],
                              created + r.created, create_fail_at)
    IN  IF j > Len(order)
        THEN [result |-> "ok", current |-> current, previous |-> previous,
              cache_entries |-> entries, created |-> created]
        ELSE Step(order[j],
                  InternalRearrangeAppendGlyph(current, previous, order[j],
                                               entries[order[j]].glyph_bitmap,
                                               create_fail_at # created + 1))

\* A retain that keeps only the keys of this_frame.
RetainThisFrameOnly(entries, last, this) ==
    [k \in {x \in DOMAIN entries : x \in this} |-> entries[k]]

\* A retain that also keeps the keys that are in neither generation.
RetainAll(entries, last, this) == entries

\* cache_entries.retain(|key, _| last_frame.contains(key) || this_frame.contains(key))
Retain(entries, last, this) ==
    [k \in {x \in DOMAIN entries : x \in last \/ x \in this} |-> entries[k]]

\* The iteration orders of a set, as sequences.
Orders(S) ==
    {f \in [1..Cardinality(S) -> S] :
        \A a, b \in 1..Cardinality(S) : a # b => f[a] # f[b]}

\* A sort that leaves the entries with the shortest bitmap first.
HeightOrdersAscending(entries) ==
    {f \in Orders(DOMAIN entries) :
        \A a \in 1..(Len(f) - 1) :
            entries[f[a]].glyph_bitmap.size[2] <= entries[f[a + 1]].glyph_bitmap.size[2]}

\* The orders sort_unstable_by may leave the entries in: bitmap height,
\* tallest first.
HeightOrders(entries) ==
    {f \in Orders(DOMAIN entries) :
        \A a \in 1..(Len(f) - 1) :
            entries[f[a]].glyph_bitmap.size[2] >= entries[f[a + 1]].glyph_bitmap.size[2]}

\* A rebuild that puts every atlas left in the pool back into the cache.
RebuildKeepsPool(texs, entries, last, this, order, create_fail_at) ==
    LET cleared_textures == [i \in 1..Len(texs) |-> Clear(Clear(texs[i]))]
        reset == [k \in DOMAIN entries |-> [entries[k] EXCEPT !.texture_id = <<>>]]
        KeepAll(r) ==
            IF r.result # "ok"
            THEN [result |-> r.result, textures |-> r.current,
                  cache_entries |-> r.cache_entries, created |-> r.created,
                  dropped |-> Len(r.previous)]
            ELSE [result |-> "ok", textures |-> r.current \o r.previous,
                  cache_entries |-> r.cache_entries, created |-> r.created,
                  dropped |-> 0]
    IN  KeepAll(RearrangeAll(order, 1, <<>>, cleared_textures,
                             Retain(reset, last, this), 0, create_fail_at))

\* The rebuild branch of prepare_for_draw, on the atlases as try_insert_pending
\* left them.
Rebuild(texs, entries, last, this, order, create_fail_at) ==
    LET cleared_textures == [i \in 1..Len(texs) |-> Clear(Clear(texs[i]))]
        reset == [k \in DOMAIN entries |-> [entries[k] EXCEPT !.texture_id = <<>>]]
        KeepSpare(r) ==
            IF r.result # "ok"
            THEN [result |-> r.result, textures |-> r.current,
                  cache_entries |-> r.cache_entries, created |-> r.created,
                  dropped |-> Len(r.previous)]
            ELSE IF r.previous # <<>>
            THEN [result |-> "ok",
                  textures |-> Append(r.current, r.previous[Len(r.previous)]),
                  cache_entries |-> r.cache_entries, created |-> r.created,
                  dropped |-> Len(r.previous) - 1]
            ELSE [result |-> "ok", textures |-> r.current,
                  cache_entries |-> r.cache_entries, created |-> r.created,
                  dropped |-> 0]
    IN  KeepSpare(RearrangeAll(order, 1, <<>>, cleared_textures,
                               Retain(reset, last, this), 0, create_fail_at))

\* A revalidate loop that goes on to the next atlas when an upload fails and
\* reports success.
RECURSIVE RevalidateAllIgnoresFailure(_, _, _, _)
RevalidateAllIgnoresFailure(texs, i, uploads, upload_fail_at) ==
    LET Step(r) ==
            RevalidateAllIgnoresFailure([texs EXCEPT ![i] = r.texture], i + 1,
                                        IF r.uploaded THEN uploads + 1 ELSE uploads,
                                        upload_fail_at)
    IN  IF i > Len(texs)
        THEN [result |-> "ok", textures |-> texs, uploads |-> uploads]
        ELSE Step(Revalidate(texs[i], upload_fail_at # uploads + 1))

\* The revalidate loop of prepare_for_draw from atlas i on; the
\* upload_fail_at-th upload of the call fails (0: none does).
RECURSIVE RevalidateAll(_, _, _, _)
RevalidateAll(texs, i, uploads, upload_fail_at) ==
    LET Step(r) ==
            IF ~r.ok
            THEN [result |-> "err_upload",
                  textures |-> [texs EXCEPT ![i] = r.texture],
                  uploads |-> uploads + 1]
            ELSE RevalidateAll([texs EXCEPT ![i] = r.texture], i + 1,
                               IF r.uploaded THEN uploads + 1 ELSE uploads,
                               upload_fail_at)
    IN  IF i > Len(texs)
        THEN [result |-> "ok", textures |-> texs, uploads |-> uploads]
        ELSE Step(Revalidate(texs[i], upload_fail_at # uploads + 1))

(***************************************************************************)
(* get_renderer2d_actions on a placed entry.  Coordinates are fractions    *)
(* [n, d] in lowest terms with d > 0.                                      *)
(***************************************************************************)
RECURSIVE Gcd(_, _)
Gcd(a, b) == IF b = 0 THEN a ELSE Gcd(b, a % b)

F32(n, d) ==
    LET sn == IF d < 0 THEN -n ELSE n
        sd == IF d < 0 THEN -d ELSE d
        g == Gcd(IF sn < 0 THEN -sn ELSE sn, sd)
    IN  [n |-> sn \div g, d |-> sd \div g]

F32Add(a, b) == F32(a.n * b.d + b.n * a.d, a.d * b.d)

F32Sub(a, b) == F32(a.n * b.d - b.n * a.d, a.d * b.d)

F32Mul(a, b) == F32(a.n * b.n, a.d * b.d)

F32Div(a, b) == F32(a.n * b.d, a.d * b.n)

F32Less(a, b) == a.n * b.d < b.n * a.d

F32Max(a, b) == IF F32Less(a, b) THEN b ELSE a

F32Min(a, b) == IF F32Less(a, b) THEN a ELSE b

\* as_vec2() of a point with integer coordinates
AsVec2(p) == <<F32(p[1], 1), F32(p[2], 1)>>

RectNew(top_left, bottom_right) ==
    [top_left |-> top_left, bottom_right |-> bottom_right]

RectWidth(r) == F32Sub(r.bottom_right[1], r.top_left[1])

RectHeight(r) == F32Sub(r.bottom_right[2], r.top_left[2])

\* Rect::corners: top left, top right, bottom right, bottom left
Corners(r) ==
    <<r.top_left, <<r.bottom_right[1], r.top_left[2]>>,
      r.bottom_right, <<r.top_left[1], r.bottom_right[2]>>>>

\* An intersect that also answers with the common edge or corner of two
\* rectangles that only touch.
IntersectClosed(a, b) ==
    LET top_left == <<F32Max(a.top_left[1], b.top_left[1]),
                      F32Max(a.top_left[2], b.top_left[2])>>
        bottom_right == <<F32Min(a.bottom_right[1], b.bottom_right[1]),
                          F32Min(a.bottom_right[2], b.bottom_right[2])>>
    IN  IF /\ ~F32Less(bottom_right[1], top_left[1])
           /\ ~F32Less(bottom_right[2], top_left[2])
        THEN <<RectNew(top_left, bottom_right)>>
        ELSE <<>>

\* Rect::intersect: <<the common rectangle>>, <<>> when the two have no
\* common area (rectangles that only touch have none).
Intersect(a, b) ==
    LET top_left == <<F32Max(a.top_left[1], b.top_left[1]),
                      F32Max(a.top_left[2], b.top_left[2])>>
        bottom_right == <<F32Min(a.bottom_right[1], b.bottom_right[1]),
                          F32Min(a.bottom_right[2], b.bottom_right[2])>>
    IN  IF /\ F32Less(top_left[1], bottom_right[1])
           /\ F32Less(top_left[2], bottom_right[2])
        THEN <<RectNew(top_left, bottom_right)>>
        ELSE <<>>

Renderer2DVertex(position, texture_coord) ==
    [position |-> position, texture_coord |-> texture_coord,
     texture_mix |-> 1, circle_mix |-> 0]

\* The two runner calls at the end of get_renderer2d_actions.
EmitTriangles(texture, screen_region, texture_region) ==
    LET s == Corners(screen_region)
        t == Corners(texture_region)
    IN  <<[texture |-> texture,
           vertices_clockwise |-> <<Renderer2DVertex(s[1], t[1]),
                                    Renderer2DVertex(s[2], t[2]),
                                    Renderer2DVertex(s[3], t[3])>>],
          [texture |-> texture,
           vertices_clockwise |-> <<Renderer2DVertex(s[3], t[3]),
                                    Renderer2DVertex(s[4], t[4]),
                                    Renderer2DVertex(s[1], t[1])>>]>>

\* A crop that takes the fractions of the width for the vertical edges too.
CropTextureRegionByWidth(screen_region, texture_region, screen_intersection) ==
    LET left_diff == F32Div(F32Sub(screen_intersection.top_left[1],
                                   screen_region.top_left[1]),
                            RectWidth(screen_region))
        right_diff == F32Div(F32Sub(screen_region.bottom_right[1],
                                    screen_intersection.bottom_right[1]),
                             RectWidth(screen_region))
        top_diff == F32Div(F32Sub(screen_intersection.top_left[2],
                                  screen_region.top_left[2]),
                           RectWidth(screen_region))
        bottom_diff == F32Div(F32Sub(screen_region.bottom_right[2],
                                     screen_intersection.bottom_right[2]),
                              RectWidth(screen_region))
    IN  RectNew(<<F32Add(texture_region.top_left[1],
                         F32Mul(RectWidth(texture_region), left_diff)),
                  F32Add(texture_region.top_left[2],
                         F32Mul(RectHeight(texture_region), top_diff))>>,
                <<F32Sub(texture_region.bottom_right[1],
                         F32Mul(RectWidth(texture_region), right_diff)),
                  F32Sub(texture_region.bottom_right[2],
                         F32Mul(RectHeight(texture_region), bottom_diff))>>)

\* The texture region of a glyph whose screen region the crop window cut
\* down to screen_intersection.
CropTextureRegion(screen_region, texture_region, screen_intersection) ==
    LET left_diff == F32Div(F32Sub(screen_intersection.top_left[1],
                                   screen_region.top_left[1]),
                            RectWidth(screen_region))
        right_diff == F32Div(F32Sub(screen_region.bottom_right[1],
                                    screen_intersection.bottom_right[1]),
                             RectWidth(screen_region))
        top_diff == F32Div(F32Sub(screen_intersection.top_left[2],
                                  screen_region.top_left[2]),
                           RectHeight(screen_region))
        bottom_diff == F32Div(F32Sub(screen_region.bottom_right[2],
                                     screen_intersection.bottom_right[2]),
                              RectHeight(screen_region))
    IN  RectNew(<<F32Add(texture_region.top_left[1],
                         F32Mul(RectWidth(texture_region), left_diff)),
                  F32Add(texture_region.top_left[2],
                         F32Mul(RectHeight(texture_region), top_diff))>>,
                <<F32Sub(texture_region.bottom_right[1],
                         F32Mul(RectWidth(texture_region), right_diff)),
                  F32Sub(texture_region.bottom_right[2],
                         F32Mul(RectHeight(texture_region), bottom_diff))>>)

\* The screen region of a placed glyph: position.round() plus the offset of
\* the bounding box, as large as the placement.  position is in 1/100 px.
ScreenRegion(texture_area, position, bounding_box_offset) ==
    LET screen_region_start ==
            <<RoundF32(position[1]) \div 100 + bounding_box_offset[1],
              RoundF32(position[2]) \div 100 + bounding_box_offset[2]>>
    IN  RectNew(AsVec2(screen_region_start),
                AsVec2(<<screen_region_start[1] + Width(texture_area),
                         screen_region_start[2] + Height(texture_area)>>))

\* top_left / SIZE, bottom_right / SIZE
TextureRegion(texture_area) ==
    RectNew(<<F32(texture_area.top_left[1], SIZE),
              F32(texture_area.top_left[2], SIZE)>>,
            <<F32(texture_area.bottom_right[1], SIZE),
              F32(texture_area.bottom_right[2], SIZE)>>)

\* get_renderer2d_actions from the placement on: crop_window is <<>> or
\* <<a Rect>>.  result: "emitted" or "cropped_out".
DrawPlacedGlyph(texture, texture_area, position, bounding_box_offset, crop_window) ==
    LET Draw(screen_region, texture_region) ==
            LET Cropped(screen_intersection) ==
                    IF screen_intersection = <<>>
                    THEN [result |-> "cropped_out", actions |-> <<>>]
                    ELSE [result |-> "emitted",
                          actions |->
                              EmitTriangles(texture, screen_intersection[1],
                                            CropTextureRegion(screen_region,
                                                              texture_region,
                                                              screen_intersection[1]))]
            IN  IF crop_window = <<>>
                THEN [result |-> "emitted",
                      actions |-> EmitTriangles(texture, screen_region, texture_region)]
                ELSE Cropped(Intersect(screen_region, crop_window[1]))
    IN  Draw(ScreenRegion(texture_area, position, bounding_box_offset),
             TextureRegion(texture_area))

(***************************************************************************)
(* The variables of the parts a specification does not use stay as they   *)
(* are here.                                                               *)
(***************************************************************************)
PackerIdle ==
    /\ pk_dim = <<0, 0>>
    /\ pk_packer = TexturePackerNew(0, 0)
    /\ pk_log = <<>>

AtlasIdle ==
    /\ at_texture = GlyphCacheTextureNew(0)
    /\ at_last = [op |-> "new", ok |-> TRUE, uploaded |-> FALSE]

\* A crop window with integer corners.
CropWindow(left, top, right, bottom) ==
    RectNew(AsVec2(<<left, top>>), AsVec2(<<right, bottom>>))

DrawIdle ==
    /\ dr_in = [texture_area |-> NoRect, position |-> <<0, 0>>,
                bounding_box_offset |-> <<0, 0>>, crop_window |-> <<>>]
    /\ dr_out = <<>>

Request(x, y) ==
    [font_id |-> 0, glyph_id |-> 7, scale |-> 1600,
     position |-> <<x, y>>, screen_offset |-> <<100, 250>>]

QuantIdle ==
    /\ q_mode = "idle"
    /\ q_p = 0
    /\ q_out = <<>>
    /\ q_reqA = Request(0, 0)
    /\ q_reqB = Request(0, 0)
    /\ q_keyA = <<>>
    /\ q_keyB = <<>>

(***************************************************************************)
(* The glyph cache as a state machine.  Spec: the four public operations   *)
(* in any order.  SpecFrame: in the documented order of one frame,         *)
(* mark_used* -> prepare_for_draw -> get_draw_primitives* ->               *)
(* begin_new_frame.  A panic ends the run.                                 *)
(***************************************************************************)
GlyphSizes == {<<0, 3>>, <<10, 10>>, <<10, 20>>, <<1023, 10>>, <<1025, 10>>}

\* What pixel_bounding_box() may answer for a key: None, or a box.
BoxOptions ==
    {<<>>} \cup {<<[size |-> s, top_left |-> <<1, -s[2]>>]>> : s \in GlyphSizes}

LastOp(op, result, rebuilt, created, dropped, uploads) ==
    [op |-> op, result |-> result, rebuilt |-> rebuilt,
     created |-> created, dropped |-> dropped, uploads |-> uploads]

CacheNew ==
    /\ last_frame = {}
    /\ this_frame = {}
    /\ cache_entries = EmptyMap
    /\ textures = <<>>

ObsInit ==
    /\ last_op = LastOp("new", "ok", FALSE, 0, 0, 0)
    /\ mark_hist = [k \in Keys |-> <<FALSE, FALSE, FALSE>>]
    /\ alternating = [k \in Keys |-> "idle"]
    /\ clean = "dirty"

CacheIdle ==
    /\ CacheNew
    /\ glyph_box = [k \in Keys |-> <<>>]
    /\ phase = "idle"
    /\ ObsInit

Alive == last_op.result # "panic"

\* Where the draws of the cache specifications put the glyph (1/100 px), and
\* their crop windows: none, one that cuts the glyphs, one that misses them.
DrawPosition == <<230, -40>>

DrawCrops ==
    {<<>>, <<CropWindow(5, -15, 2000, 2000)>>, <<CropWindow(5000, 5000, 6000, 6000)>>}

\* A prepare_for_draw that rebuilds whether or not try_insert_pending failed.
PrepareForDrawCallAlwaysRebuilds(order1, order2, create_fail_at, upload_fail_at) ==
    LET Finish(rv, entries, rebuilt, created, dropped) ==
            [result |-> rv.result, textures |-> rv.textures,
             cache_entries |-> entries, rebuilt |-> rebuilt,
             created |-> created, dropped |-> dropped, uploads |-> rv.uploads]
        AfterRebuild(rb) ==
            IF rb.result # "ok"
            THEN [result |-> rb.result, textures |-> rb.textures,
                  cache_entries |-> rb.cache_entries, rebuilt |-> TRUE,
                  created |-> rb.created, dropped |-> rb.dropped, uploads |-> 0]
            ELSE Finish(RevalidateAll(rb.textures, 1, 0, upload_fail_at),
                        rb.cache_entries, TRUE, rb.created, rb.dropped)
        AfterPending(pending) ==
            AfterRebuild(Rebuild(pending.textures, pending.cache_entries,
                                 last_frame, this_frame, order2, create_fail_at))
    IN  AfterPending(TryInsertPending(order1, 1, textures, cache_entries))

\* prepare_for_draw as a function of the cache and of its inputs: the
\* iteration order of the entry map, the order the sort leaves, and which GPU
\* calls fail.
PrepareForDrawCall(order1, order2, create_fail_at, upload_fail_at) ==
    LET Finish(rv, entries, rebuilt, created, dropped) ==
            [result |-> rv.result, textures |-> rv.textures,
             cache_entries |-> entries, rebuilt |-> rebuilt,
             created |-> created, dropped |-> dropped, uploads |-> rv.uploads]
        AfterRebuild(rb) ==
            IF rb.result # "ok"
            THEN [result |-> rb.result, textures |-> rb.textures,
                  cache_entries |-> rb.cache_entries, rebuilt |-> TRUE,
                  created |-> rb.created, dropped |-> rb.dropped, uploads |-> 0]
            ELSE Finish(RevalidateAll(rb.textures, 1, 0, upload_fail_at),
                        rb.cache_entries, TRUE, rb.created, rb.dropped)
        AfterPending(pending) ==
            IF ~pending.ok
            THEN AfterRebuild(Rebuild(pending.textures, pending.cache_entries,
                                      last_frame, this_frame, order2,
                                      create_fail_at))
            ELSE Finish(RevalidateAll(pending.textures, 1, 0, upload_fail_at),
                        pending.cache_entries, FALSE, 0, 0)
    IN  AfterPending(TryInsertPending(order1, 1, textures, cache_entries))

\* A get_renderer2d_actions that binds the texture of the first atlas.
GetRenderer2dActionsFirstAtlas(key, position, crop_window) ==
    LET Placed(entry, texture_cache) ==
            DrawPlacedGlyph(textures[1].texture,
                            texture_cache.entries[key].texture_area,
                            position, entry.bounding_box_offset, crop_window)
    IN  IF key \notin DOMAIN cache_entries
        THEN [result |-> "none", actions |-> <<>>]
        ELSE IF cache_entries[key].texture_id = <<>>
        THEN [result |-> "panic", actions |-> <<>>]
        ELSE IF cache_entries[key].texture_id[1] >= Len(textures)
        THEN [result |-> "panic", actions |-> <<>>]
        ELSE IF key \notin DOMAIN textures[cache_entries[key].texture_id[1] + 1].entries
        THEN [result |-> "panic", actions |-> <<>>]
        ELSE Placed(cache_entries[key],
                    textures[cache_entries[key].texture_id[1] + 1])

\* get_renderer2d_actions; position is the sum of the position of the call
\* and of the glyph.  result: "none" (no entry, nothing emitted), "panic"
\* when one of its unwraps finds None, "cropped_out" or "emitted".
GetRenderer2dActions(key, position, crop_window) ==
    LET Placed(entry, texture_cache) ==
            DrawPlacedGlyph(texture_cache.texture,
                            texture_cache.entries[key].texture_area,
                            position, entry.bounding_box_offset, crop_window)
    IN  IF key \notin DOMAIN cache_entries
        THEN [result |-> "none", actions |-> <<>>]
        ELSE IF cache_entries[key].texture_id = <<>>
        THEN [result |-> "panic", actions |-> <<>>]
        ELSE IF cache_entries[key].texture_id[1] >= Len(textures)
        THEN [result |-> "panic", actions |-> <<>>]
        ELSE IF key \notin DOMAIN textures[cache_entries[key].texture_id[1] + 1].entries
        THEN [result |-> "panic", actions |-> <<>>]
        ELSE Placed(cache_entries[key],
                    textures[cache_entries[key].texture_id[1] + 1])

MarkUsed(key) ==
    /\ Alive
    /\ \E r \in {AddToCache(cache_entries, this_frame, key, glyph_box[key])} :
           /\ this_frame' = r.this_frame
           /\ cache_entries' = r.cache_entries
           /\ last_op' = LastOp("mark_used",
                                IF r.rasterized THEN "rasterized" ELSE "ok",
                                FALSE, 0, 0, 0)
    /\ mark_hist' = [mark_hist EXCEPT ![key][1] = TRUE]
    /\ alternating' =
           [alternating EXCEPT
               ![key] = IF @ = "idle" /\ phase # "free" THEN "alt" ELSE @]
    /\ clean' = "dirty"
    /\ UNCHANGED <<last_frame, textures, glyph_box, pk_vars, q_vars, at_vars, dr_in>>
    /\ dr_out' = <<>>

\* create_fails, upload_fails: which texture creation and which upload of the
\* call the GPU may refuse (0: none).
PrepareForDraw(create_fails, upload_fails) ==
    /\ Alive
    /\ \E r \in {PrepareForDrawCall(order1, order2, create_fail_at, upload_fail_at) :
                     order1 \in Orders(DOMAIN cache_entries),
                     order2 \in HeightOrders(Retain(cache_entries, last_frame,
                                                    this_frame)),
                     create_fail_at \in create_fails,
                     upload_fail_at \in upload_fails} :
              /\ textures' = r.textures
              /\ cache_entries' = r.cache_entries
              /\ last_op' = LastOp("prepare_for_draw", r.result, r.rebuilt,
                                   r.created, r.dropped, r.uploads)
              /\ clean' = IF r.result # "ok" THEN "dirty"
                        ELSE IF clean = "dirty" THEN "prepared"
                        ELSE "repeated"
    /\ UNCHANGED <<last_frame, this_frame, glyph_box, mark_hist, alternating,
                   pk_vars, q_vars, at_vars, dr_in>>
    /\ dr_out' = <<>>

GetDrawPrimitives(key, crop_window) ==
    /\ Alive
    /\ \E r \in {GetRenderer2dActions(key, DrawPosition, crop_window)} :
           /\ last_op' = LastOp("get_draw_primitives", r.result, FALSE, 0, 0, 0)
           /\ dr_out' = <<r>>
    /\ UNCHANGED <<cache_vars, mark_hist, alternating, clean,
                   pk_vars, q_vars, at_vars, dr_in>>

BeginNewFrame ==
    /\ Alive
    /\ LET r == OnNewFrameStart(last_frame, this_frame)
       IN  /\ last_frame' = r.last_frame
           /\ this_frame' = r.this_frame
    /\ last_op' = LastOp("begin_new_frame", "ok", FALSE, 0, 0, 0)
    /\ mark_hist' = [k \in Keys |-> <<FALSE, mark_hist[k][1], mark_hist[k][2]>>]
    /\ alternating' =
           [k \in Keys |->
               IF alternating[k] = "alt" /\ mark_hist[k][1] = mark_hist[k][2]
               THEN "broken" ELSE alternating[k]]
    /\ UNCHANGED <<cache_entries, textures, glyph_box, clean, pk_vars, q_vars, at_vars, dr_in>>
    /\ dr_out' = <<>>

\* The rasterizers of the model: every key gets one of the boxes; keys are
\* interchangeable, so the boxes are taken in the order of BoxRank.
BoxRank(box) == IF box = <<>> THEN 0 ELSE box[1].size[1] + box[1].size[2]

Rasterizers ==
    {g \in [Keys -> BoxOptions] :
        \A a, b \in Keys : a < b => BoxRank(g[a]) <= BoxRank(g[b])}

GpuFailsAt == 0..NumKeys

Init ==
    /\ CacheNew
    /\ glyph_box \in Rasterizers
    /\ phase = "free"
    /\ ObsInit
    /\ PackerIdle
    /\ QuantIdle
    /\ AtlasIdle
    /\ DrawIdle

FreeMarkUsed == \E key \in Keys : MarkUsed(key) /\ UNCHANGED phase

FreePrepareForDraw == PrepareForDraw(GpuFailsAt, GpuFailsAt) /\ UNCHANGED phase

\* The draws of Spec have no crop window; those of SpecFrame take DrawCrops.
FreeGetDrawPrimitives ==
    \E key \in Keys : GetDrawPrimitives(key, <<>>) /\ UNCHANGED phase

FreeBeginNewFrame == BeginNewFrame /\ UNCHANGED phase

Next ==
    \/ FreeMarkUsed
    \/ FreePrepareForDraw
    \/ FreeGetDrawPrimitives
    \/ FreeBeginNewFrame

Spec == Init /\ [][Next]_vars

\* The four operations in any order on a GPU that never refuses a texture
\* creation or an upload.
GpuOkPrepareForDraw == PrepareForDraw({0}, {0}) /\ UNCHANGED phase

GpuOkNext ==
    \/ FreeMarkUsed
    \/ GpuOkPrepareForDraw
    \/ FreeGetDrawPrimitives
    \/ FreeBeginNewFrame

SpecGpuOk == Init /\ [][GpuOkNext]_vars

FrameInit ==
    /\ CacheNew
    /\ glyph_box \in Rasterizers
    /\ phase = "mark"
    /\ ObsInit
    /\ PackerIdle
    /\ QuantIdle
    /\ AtlasIdle
    /\ DrawIdle

FrameMarkUsed ==
    /\ phase = "mark"
    /\ \E key \in Keys : MarkUsed(key)
    /\ UNCHANGED phase

FramePrepareForDraw ==
    /\ phase = "mark"
    /\ PrepareForDraw(GpuFailsAt, GpuFailsAt)
    /\ phase' = "draw"

FrameGetDrawPrimitives ==
    /\ phase = "draw"
    /\ \E key \in Keys, crop_window \in DrawCrops :
           GetDrawPrimitives(key, crop_window)
    /\ UNCHANGED phase

FrameBeginNewFrame ==
    /\ phase = "draw"
    /\ BeginNewFrame
    /\ phase' = "mark"

FrameNext ==
    \/ FrameMarkUsed
    \/ FramePrepareForDraw
    \/ FrameGetDrawPrimitives
    \/ FrameBeginNewFrame

SpecFrame == FrameInit /\ [][FrameNext]_vars

(***************************************************************************)
(* SpecPacker: one packer, try_allocate called up to MaxCalls times.       *)
(***************************************************************************)
PackerDims == {<<64, 64>>, <<32, 64>>, <<64, 32>>, <<32, 32>>}

PackerSizes ==
    {<<0, 30>>, <<30, 0>>, <<0, 0>>, <<14, 14>>, <<14, 30>>, <<28, 28>>, <<30, 30>>}

PackerInit ==
    /\ pk_dim \in PackerDims
    /\ pk_packer = TexturePackerNew(pk_dim[1], pk_dim[2])
    /\ pk_log = <<>>
    /\ QuantIdle
    /\ CacheIdle
    /\ AtlasIdle
    /\ DrawIdle

PackerTryAllocate(size) ==
    /\ Len(pk_log) < MaxCalls
    /\ LET r == TryAllocate(pk_packer, size)
       IN  /\ pk_packer' = r.packer
           /\ pk_log' = Append(pk_log, [size |-> size, ok |-> r.ok, rect |-> r.rect])
    /\ UNCHANGED <<pk_dim, q_vars, cache_vars, obs_vars, at_vars, dr_vars>>

PackerNext == \E size \in PackerSizes : PackerTryAllocate(size)

SpecPacker == PackerInit /\ [][PackerNext]_vars

(***************************************************************************)
(* SpecQuant: from_pixels on one value, GlyphCacheKey::from on two         *)
(* requests that differ only in position.                                  *)
(***************************************************************************)
PixelRange == (-MaxPos)..MaxPos

QuantInit ==
    /\ PackerIdle
    /\ CacheIdle
    /\ AtlasIdle
    /\ DrawIdle
    /\ q_out = <<>>
    /\ q_keyA = <<>>
    /\ q_keyB = <<>>
    /\ \/ /\ q_mode = "pixels"
          /\ q_p \in PixelRange
          /\ q_reqA = Request(0, 0)
          /\ q_reqB = Request(0, 0)
       \/ /\ q_mode = "keys"
          /\ q_p = 0
          /\ \E x \in PixelRange, y \in {-45, 0, 4}, dx \in (-MaxDelta)..MaxDelta,
                dy \in {0, 2} :
                /\ q_reqA = Request(x, y)
                /\ q_reqB = Request(x + dx, y + dy)

QuantizePixels ==
    /\ q_mode = "pixels"
    /\ q_out = <<>>
    /\ q_out' = <<FromPixels(q_p)>>
    /\ UNCHANGED <<q_mode, q_p, q_reqA, q_reqB, q_keyA, q_keyB, pk_vars, cache_vars, obs_vars, at_vars, dr_vars>>

BuildKeys ==
    /\ q_mode = "keys"
    /\ q_keyA = <<>>
    /\ q_keyA' = <<GlyphCacheKeyFrom(q_reqA)>>
    /\ q_keyB' = <<GlyphCacheKeyFrom(q_reqB)>>
    /\ UNCHANGED <<q_mode, q_p, q_out, q_reqA, q_reqB, pk_vars, cache_vars, obs_vars, at_vars, dr_vars>>

QuantNext == QuantizePixels \/ BuildKeys

SpecQuant == QuantInit /\ [][QuantNext]_vars

(***************************************************************************)
(* SpecCrop: get_renderer2d_actions on one placed glyph.                   *)
(***************************************************************************)
CropCoords == {-5, 0, 5, 20, 30}

CropWindows ==
    {<<>>} \cup {<<CropWindow(l, t, r, b)>> :
                    l \in CropCoords, t \in CropCoords,
                    r \in {x \in CropCoords : x > 0},
                    b \in {x \in CropCoords : x > 0}}

CropPlacements ==
    {URectNew(<<1, 1>>, <<21, 21>>), URectNew(<<33, 1>>, <<43, 21>>),
     URectNew(<<0, 0>>, <<0, 3>>)}

CropInit ==
    /\ dr_in \in [texture_area : CropPlacements,
                   position : {<<0, 0>>, <<250, -150>>},
                   bounding_box_offset : {<<0, 0>>, <<1, -20>>},
                   crop_window : CropWindows]
    /\ dr_out = <<>>
    /\ PackerIdle
    /\ QuantIdle
    /\ AtlasIdle
    /\ CacheIdle

CropDraw ==
    /\ dr_out = <<>>
    /\ dr_out' = <<DrawPlacedGlyph(0, dr_in.texture_area, dr_in.position,
                                   dr_in.bounding_box_offset, dr_in.crop_window)>>
    /\ UNCHANGED <<dr_in, pk_vars, q_vars, cache_vars, obs_vars, at_vars>>

CropNext == CropDraw

SpecCrop == CropInit /\ [][CropNext]_vars

(***************************************************************************)
(* SpecAtlas: one GlyphCacheTexture; try_append_glyph, revalidate and      *)
(* clear in any order.                                                     *)
(***************************************************************************)
AtlasSizes ==
    {<<0, 3>>, <<3, 0>>, <<10, 10>>, <<10, 20>>, <<500, 500>>, <<1022, 1022>>,
     <<1023, 10>>, <<1024, 1024>>}

AtlasInit ==
    /\ AtlasIdle
    /\ DrawIdle
    /\ PackerIdle
    /\ QuantIdle
    /\ CacheIdle

AtlasTryAppendGlyph(key, size) ==
    /\ \E r \in {TryAppendGlyph(at_texture, key, [size |-> size])} :
           /\ at_texture' = r.texture
           /\ at_last' = [op |-> "try_append_glyph", ok |-> r.ok,
                          uploaded |-> FALSE]
    /\ UNCHANGED <<pk_vars, q_vars, cache_vars, obs_vars, dr_vars>>

AtlasRevalidate(upload_ok) ==
    /\ \E r \in {Revalidate(at_texture, upload_ok)} :
           /\ at_texture' = r.texture
           /\ at_last' = [op |-> "revalidate", ok |-> r.ok,
                          uploaded |-> r.uploaded]
    /\ UNCHANGED <<pk_vars, q_vars, cache_vars, obs_vars, dr_vars>>

AtlasClear ==
    /\ at_texture' = Clear(at_texture)
    /\ at_last' = [op |-> "clear", ok |-> TRUE, uploaded |-> FALSE]
    /\ UNCHANGED <<pk_vars, q_vars, cache_vars, obs_vars, dr_vars>>

AtlasNext ==
    \/ \E key \in Keys, size \in AtlasSizes : AtlasTryAppendGlyph(key, size)
    \/ \E upload_ok \in BOOLEAN : AtlasRevalidate(upload_ok)
    \/ AtlasClear

SpecAtlas == AtlasInit /\ [][AtlasNext]_vars

(***************************************************************************)
(* SpecThreeKeys: the cache with one key more, on a GPU that refuses       *)
(* nothing, in frames of mark_used calls, one prepare_for_draw and         *)
(* begin_new_frame.  Three keys are what it takes to have an entry wait    *)
(* for a placement while the cache holds two atlases.                      *)
(***************************************************************************)
ThreeKeys == 1..(NumKeys + 1)

\* The bitmap sizes of the three keys: two bitmaps with pixels next to one
\* without, or next to one that no atlas takes.
ThreeKeysSizes ==
    {<<<<0, 3>>, <<10, 10>>, <<10, 20>>>>, <<<<10, 10>>, <<10, 10>>, <<1023, 10>>>>}

ThreeKeysRasterizers ==
    {[k \in ThreeKeys |-> <<[size |-> sizes[k], top_left |-> <<1, -sizes[k][2]>>]>>] :
        sizes \in ThreeKeysSizes}

ThreeKeysInit ==
    /\ CacheNew
    /\ glyph_box \in ThreeKeysRasterizers
    /\ phase = "mark"
    /\ ObsInit
    /\ PackerIdle
    /\ QuantIdle
    /\ AtlasIdle
    /\ DrawIdle

ThreeKeysMarkUsed ==
    /\ Alive
    /\ phase = "mark"
    /\ \E key \in ThreeKeys :
           \E r \in {AddToCache(cache_entries, this_frame, key, glyph_box[key])} :
               /\ this_frame' = r.this_frame
               /\ cache_entries' = r.cache_entries
               /\ last_op' = LastOp("mark_used",
                                    IF r.rasterized THEN "rasterized" ELSE "ok",
                                    FALSE, 0, 0, 0)
    /\ clean' = "dirty"
    /\ dr_out' = <<>>
    /\ UNCHANGED <<last_frame, textures, glyph_box, phase, mark_hist, alternating,
                   pk_vars, q_vars, at_vars, dr_in>>

ThreeKeysPrepareForDraw ==
    /\ phase = "mark"
    /\ PrepareForDraw({0}, {0})
    /\ phase' = "draw"

ThreeKeysBeginNewFrame ==
    /\ phase = "draw"
    /\ BeginNewFrame
    /\ phase' = "mark"

ThreeKeysNext ==
    \/ ThreeKeysMarkUsed
    \/ ThreeKeysPrepareForDraw
    \/ ThreeKeysBeginNewFrame

SpecThreeKeys == ThreeKeysInit /\ [][ThreeKeysNext]_vars

(***************************************************************************)
(* Claims about the packer (SpecPacker).                                   *)
(***************************************************************************)
IsZeroSize(size) == size[1] = 0 \/ size[2] = 0

Abs(n) == IF n >= 0 THEN n ELSE -n

\* The calls of the log were all made with one non-zero size.
UniformLog ==
    /\ pk_log # <<>>
    /\ ~IsZeroSize(pk_log[1].size)
    /\ \A i \in 1..Len(pk_log) : pk_log[i].size = pk_log[1].size

\* C1: from a fresh W x H packer, calls with one non-zero size w x h succeed
\* exactly floor(W/(w+2)) * floor(H/(h+2)) times, the k-th at
\* ((k mod n)*(w+2)+1, (k div n)*(h+2)+1) with n = floor(W/(w+2)), and every
\* further call fails.
C1_RowMajorFill ==
    UniformLog =>
        LET w == pk_log[1].size[1]
            h == pk_log[1].size[2]
            n == pk_dim[1] \div (w + 2)
            m == pk_dim[2] \div (h + 2)
        IN  \A i \in 1..Len(pk_log) :
                LET k == i - 1
                IN  IF k < n * m
                    THEN /\ pk_log[i].ok
                         /\ pk_log[i].rect =
                                URectNew(<<(k % n) * (w + 2) + 1,
                                           (k \div n) * (h + 2) + 1>>,
                                         <<(k % n) * (w + 2) + 1 + w,
                                           (k \div n) * (h + 2) + 1 + h>>)
                    ELSE ~pk_log[i].ok

\* The packer and the results of the non-zero calls of a log, replayed on a
\* fresh packer with the zero-size calls left out.
RECURSIVE ReplayNonZero(_, _, _, _)
ReplayNonZero(log, i, packer, results) ==
    IF i > Len(log) THEN [packer |-> packer, results |-> results]
    ELSE IF IsZeroSize(log[i].size)
         THEN ReplayNonZero(log, i + 1, packer, results)
         ELSE LET r == TryAllocate(packer, log[i].size)
              IN  ReplayNonZero(log, i + 1, r.packer,
                                Append(results, [ok |-> r.ok, rect |-> r.rect]))

RECURSIVE NonZeroResults(_, _)
NonZeroResults(log, i) ==
    IF i > Len(log) THEN <<>>
    ELSE IF IsZeroSize(log[i].size)
         THEN NonZeroResults(log, i + 1)
         ELSE <<[ok |-> log[i].ok, rect |-> log[i].rect]>> \o NonZeroResults(log, i + 1)

\* C2: a call with a zero width or height succeeds with the zero-area
\* rectangle (0,0)-(w,h) and leaves the free regions as they were: the packer
\* and the results of all other calls are those of the same calls without it.
C2_ZeroSizeConsumesNothing ==
    LET replay == ReplayNonZero(pk_log, 1, TexturePackerNew(pk_dim[1], pk_dim[2]), <<>>)
    IN  /\ \A i \in 1..Len(pk_log) :
               IsZeroSize(pk_log[i].size) =>
                   /\ pk_log[i].ok
                   /\ pk_log[i].rect = URectNew(<<0, 0>>, pk_log[i].size)
                   /\ IsZeroArea(pk_log[i].rect)
        /\ pk_packer = replay.packer
        /\ NonZeroResults(pk_log, 1) = replay.results

\* A zero-size call made before a successful non-zero allocation.
C2_Witness ==
    /\ Len(pk_log) >= 2
    /\ IsZeroSize(pk_log[1].size)
    /\ ~IsZeroSize(pk_log[2].size)
    /\ pk_log[2].ok

(***************************************************************************)
(* Claims about the quantizer and the cache key (SpecQuant).               *)
(***************************************************************************)
\* C7: for every pixel value p, negative or not, from_pixels(p) is 10*p
\* rounded to the nearest integer: |to_pixels(from_pixels(p)) - p| <= 0.05.
C7_RoundTripWithinHalfStep ==
    (q_mode = "pixels" /\ q_out # <<>>) => Abs(ToPixels(q_out[1]) - q_p) <= 5

CloseOffsets ==
    /\ Abs(SubpixelOffset(q_reqA)[1] - SubpixelOffset(q_reqB)[1]) < 5
    /\ Abs(SubpixelOffset(q_reqA)[2] - SubpixelOffset(q_reqB)[2]) < 5

\* C8 as stated: requests with the same font, glyph and scale whose subpixel
\* offsets differ by less than 0.05 px on each axis get equal keys.
C8_CloseOffsetsSameKey ==
    (q_mode = "keys" /\ q_keyA # <<>> /\ CloseOffsets) => q_keyA = q_keyB

\* C8 as amended: such requests get equal keys exactly when their subpixel
\* offsets quantize to the same value on each axis, and offsets that differ by
\* less than 0.05 px quantize to values at most one step apart.
C8_CloseOffsetsAdjacentBuckets ==
    (q_mode = "keys" /\ q_keyA # <<>>) =>
        LET a == q_keyA[1].subpixel_offset
            b == q_keyB[1].subpixel_offset
        IN  /\ (q_keyA = q_keyB) <=>
                   /\ FromPixels(SubpixelOffset(q_reqA)[1]) = FromPixels(SubpixelOffset(q_reqB)[1])
                   /\ FromPixels(SubpixelOffset(q_reqA)[2]) = FromPixels(SubpixelOffset(q_reqB)[2])
            /\ \A axis \in 1..2 :
                   Abs(SubpixelOffset(q_reqA)[axis] - SubpixelOffset(q_reqB)[axis]) < 5
                       => Abs(a[axis].inner_value - b[axis].inner_value) <= 1

\* Two requests less than 0.05 px apart on the two sides of a bucket boundary.
C8_Witness ==
    /\ q_mode = "keys"
    /\ q_keyA # <<>>
    /\ CloseOffsets
    /\ q_keyA # q_keyB

(***************************************************************************)
(* Claims about the two generations and the rebuild.                       *)
(***************************************************************************)
\* The step is a prepare_for_draw whose try_insert_pending failed.
RebuildStep == last_op'.op = "prepare_for_draw" /\ last_op'.rebuilt

\* add_to_cache stores an entry for the key when it has none.
Storable(k) ==
    /\ glyph_box[k] # <<>>
    /\ glyph_box[k][1].size[1] <= SIZE
    /\ glyph_box[k][1].size[2] <= SIZE

\* C3 (SpecFrame): an entry whose key was marked in this frame and in the one
\* before (prepare_for_draw of frame N+1), or in the two frames before this
\* one (prepare_for_draw of frame N+2), survives every rebuild of the frame.
C3_TwoGenerationWindow ==
    [][\A k \in Keys :
          (/\ RebuildStep
           /\ k \in DOMAIN cache_entries
           /\ \/ mark_hist[k][1] /\ mark_hist[k][2]
              \/ mark_hist[k][2] /\ mark_hist[k][3])
          => k \in DOMAIN cache_entries']_vars

\* A rebuild ran in frame N+2, where the key was not marked, and kept it.
C3_Witness ==
    /\ phase = "draw"
    /\ last_op.op = "prepare_for_draw"
    /\ last_op.rebuilt
    /\ \E k \in Keys : /\ mark_hist[k] = <<FALSE, TRUE, TRUE>>
                       /\ k \in DOMAIN cache_entries

\* C4 (Spec): a rebuild keeps an entry exactly when its key was marked since
\* the last begin_new_frame or between the last two: it keeps the entry while
\* begin_new_frame was called less than twice since the marking, and the first
\* rebuild after two calls without a marking removes it.
C4_EvictionAfterTwoFrames ==
    [][\A k \in Keys :
          (RebuildStep /\ k \in DOMAIN cache_entries)
          => (k \in DOMAIN cache_entries'
                  <=> (mark_hist[k][1] \/ mark_hist[k][2]))]_vars

\* A rebuild ran after two begin_new_frame without a marking of a key that
\* had an entry, and the entry is gone.
C4_Witness ==
    /\ last_op.op = "prepare_for_draw"
    /\ last_op.rebuilt
    /\ \E k \in Keys : /\ Storable(k)
                       /\ mark_hist[k] = <<FALSE, FALSE, TRUE>>
                       /\ k \notin DOMAIN cache_entries

\* C5 (SpecFrame): for a key marked in every other frame so far, whose glyph
\* got an entry: at every prepare_for_draw of a frame that continues the
\* pattern the key is in last_frame or this_frame and keeps its entry, and no
\* mark_used of the key rasterizes the glyph again.
C5_AlternatingNeverEvicted ==
    [][\A k \in Keys :
          (alternating[k] = "alt" /\ Storable(k))
          => /\ (last_op'.op = "prepare_for_draw"
                     /\ mark_hist[k][1] # mark_hist[k][2])
                => /\ k \in last_frame \cup this_frame
                   /\ k \in DOMAIN cache_entries
                   /\ k \in DOMAIN cache_entries'
             /\ MarkUsed(k) => last_op'.result = "ok"]_vars

\* A key marked in frames N and N+2 only went through a rebuild in N+2.
C5_Witness ==
    /\ phase = "draw"
    /\ last_op.op = "prepare_for_draw"
    /\ last_op.rebuilt
    /\ \E k \in Keys : /\ alternating[k] = "alt"
                       /\ Storable(k)
                       /\ mark_hist[k] = <<TRUE, FALSE, TRUE>>
                       /\ k \in DOMAIN cache_entries

\* C6 (Spec): a prepare_for_draw that follows a successful one with no
\* mark_used in between finds every entry placed, returns Ok without a
\* rebuild, uploads nothing, creates and drops no atlas, and leaves the
\* entries and the atlases as they were.
C6_RepeatedPrepareIsNoOp ==
    [][(clean # "dirty" /\ last_op'.op = "prepare_for_draw")
       => /\ \A k \in DOMAIN cache_entries : cache_entries[k].texture_id # <<>>
          /\ last_op'.result = "ok"
          /\ ~last_op'.rebuilt
          /\ last_op'.uploads = 0
          /\ last_op'.created = 0
          /\ last_op'.dropped = 0
          /\ cache_entries' = cache_entries
          /\ textures' = textures]_vars

\* prepare_for_draw ran again on a cache with placed entries.
C6_Witness ==
    /\ clean = "repeated"
    /\ last_op.op = "prepare_for_draw"
    /\ textures # <<>>
    /\ \E k \in DOMAIN cache_entries : cache_entries[k].texture_id # <<>>

\* C9 (SpecGpuOk): when no texture creation and no upload fails, every
\* prepare_for_draw returns Ok.
C9_PrepareAlwaysSucceeds ==
    last_op.op = "prepare_for_draw" => last_op.result = "ok"

\* C10 (Spec): a rebuild leaves exactly the entries whose key is in
\* last_frame or this_frame, and no other step removes an entry.
C10_EvictionOnlyInRebuild ==
    [][IF RebuildStep
       THEN DOMAIN cache_entries' =
                {k \in DOMAIN cache_entries : k \in last_frame \/ k \in this_frame}
       ELSE DOMAIN cache_entries \subseteq DOMAIN cache_entries']_vars

\* A rebuild removed the entry of a key that is in neither generation and
\* kept the entry of another key.
C10_Witness ==
    /\ last_op.op = "prepare_for_draw"
    /\ last_op.rebuilt
    /\ \E k \in Keys : /\ Storable(k)
                       /\ mark_hist[k][3]
                       /\ k \notin last_frame \cup this_frame
                       /\ k \notin DOMAIN cache_entries
    /\ cache_entries # EmptyMap

(***************************************************************************)
(* Claims about one atlas (SpecAtlas).                                     *)
(***************************************************************************)
\* C11: try_append_glyph, when the packer reports NotEnoughSpace, returns the
\* error and leaves the atlas (pixels, packer, placements, dirty flag) as it
\* was; when the packer succeeds it returns Ok, copies the bitmap to the
\* placement the packer returned, records that placement under the key, keeps
\* the other placements and the earlier pixels, and sets the dirty flag.
C11_TryAppendAllOrNothing ==
    [][\A key \in Keys, size \in AtlasSizes :
          AtlasTryAppendGlyph(key, size)
          => IF TryAllocate(at_texture.packer, size).ok
             THEN /\ at_last'.ok
                  /\ at_texture'.invalidated
                  /\ at_texture'.packer = TryAllocate(at_texture.packer, size).packer
                  /\ DOMAIN at_texture'.entries = DOMAIN at_texture.entries \cup {key}
                  /\ at_texture'.entries[key].texture_area =
                         TryAllocate(at_texture.packer, size).rect
                  /\ \A k \in DOMAIN at_texture.entries \ {key} :
                         at_texture'.entries[k] = at_texture.entries[k]
                  /\ at_texture.bitmap \subseteq at_texture'.bitmap
                  /\ size[1] * size[2] > 0
                     => [top_left |-> at_texture'.entries[key].texture_area.top_left,
                         size |-> size] \in at_texture'.bitmap
                  /\ at_texture'.texture = at_texture.texture
             ELSE /\ ~at_last'.ok
                  /\ at_texture' = at_texture]_vars

\* An append that the packer refused, on a clean atlas that holds a glyph.
C11_Witness ==
    /\ at_last.op = "try_append_glyph"
    /\ ~at_last.ok
    /\ ~at_texture.invalidated
    /\ at_texture.bitmap # {}
    /\ at_texture.entries # EmptyMap

(***************************************************************************)
(* Claims about the operations of the cache.                               *)
(***************************************************************************)
\* The atlases of the next state that were dirty when the revalidate loop of
\* the step reached them: after a rebuild those that hold a placement, else
\* those that were dirty before or got a placement.
DirtyAtRevalidate ==
    {i \in 1..Len(textures') :
        IF last_op'.rebuilt
        THEN textures'[i].entries # EmptyMap
        ELSE textures[i].invalidated \/ textures'[i].entries # textures[i].entries}

\* C12 (Spec): a prepare_for_draw makes at most one upload per atlas and
\* none for an atlas that is not dirty; when it returns Ok it uploaded every
\* dirty atlas exactly once and no atlas is dirty afterwards.
C12_OneUploadPerDirtyAtlas ==
    [][last_op'.op = "prepare_for_draw"
       => /\ last_op'.uploads <= Cardinality(DirtyAtRevalidate)
          /\ last_op'.result = "ok"
             => /\ last_op'.uploads = Cardinality(DirtyAtRevalidate)
                /\ \A i \in 1..Len(textures') : ~textures'[i].invalidated]_vars

\* One upload for an atlas that got two glyphs in the call.
C12_Witness ==
    /\ last_op.op = "prepare_for_draw"
    /\ last_op.result = "ok"
    /\ last_op.uploads = 1
    /\ \E i \in 1..Len(textures) : Cardinality(DOMAIN textures[i].entries) = 2

\* The bounding box of the glyph of k is larger than an atlas.
Oversized(k) ==
    /\ glyph_box[k] # <<>>
    /\ glyph_box[k][1].size[1] > SIZE \/ glyph_box[k][1].size[2] > SIZE

\* The glyph of k has no pixel: no bounding box, or one of zero width or height.
NoPixels(k) ==
    \/ glyph_box[k] = <<>>
    \/ glyph_box[k][1].size[1] = 0
    \/ glyph_box[k][1].size[2] = 0

\* The entry add_to_cache stores for k.
NewEntry(k) ==
    [glyph_bitmap |-> [size |-> glyph_box[k][1].size],
     bounding_box_offset |-> glyph_box[k][1].top_left,
     texture_id |-> <<>>]

\* C13 as stated (Spec): mark_used puts the key in this_frame and changes
\* neither last_frame nor an atlas; it adds an unplaced entry exactly when
\* the key has none, the bounding box has pixels and fits the atlas, and
\* changes no entry otherwise.
C13_EntryOnlyForNonEmptyBox ==
    [][\A k \in Keys :
          MarkUsed(k)
          => /\ this_frame' = this_frame \cup {k}
             /\ last_frame' = last_frame
             /\ textures' = textures
             /\ cache_entries' =
                    IF k \notin DOMAIN cache_entries /\ ~NoPixels(k) /\ ~Oversized(k)
                    THEN MapPut(cache_entries, k, NewEntry(k))
                    ELSE cache_entries]_vars

\* C13 as amended (Spec): the same, with an entry added exactly when the key
\* has none, the rasterizer answers a bounding box (of zero width or height
\* included) and the box fits the atlas.
C13_EntryOnlyForPresentBox ==
    [][\A k \in Keys :
          MarkUsed(k)
          => /\ this_frame' = this_frame \cup {k}
             /\ last_frame' = last_frame
             /\ textures' = textures
             /\ cache_entries' =
                    IF k \notin DOMAIN cache_entries /\ glyph_box[k] # <<>>
                       /\ ~Oversized(k)
                    THEN MapPut(cache_entries, k, NewEntry(k))
                    ELSE cache_entries]_vars

\* mark_used stored an unplaced entry for a glyph whose box has zero width,
\* and another key was marked without getting an entry.
C13_Witness ==
    /\ last_op.op = "mark_used"
    /\ \E k \in DOMAIN cache_entries :
           /\ NoPixels(k)
           /\ cache_entries[k].texture_id = <<>>
           /\ k \in this_frame
    /\ \E k \in Keys : k \in this_frame /\ k \notin DOMAIN cache_entries

\* The screen rectangle of the glyph of an entry drawn at DrawPosition.
EntryScreenRegion(entry) ==
    ScreenRegion(URectNew(<<0, 0>>, entry.glyph_bitmap.size), DrawPosition,
                 entry.bounding_box_offset)

\* The crop window, if there is one, has no area in common with the glyph.
CroppedOut(entry, crop_window) ==
    /\ crop_window # <<>>
    /\ Intersect(EntryScreenRegion(entry), crop_window[1]) = <<>>

\* The runner got two triangles, both with the texture of the one atlas that
\* holds a placement for the key, which is the atlas of the entry.
TwoTrianglesOfHolder(key, actions) ==
    /\ Len(actions) = 2
    /\ \E i \in 1..Len(textures) :
           /\ key \in DOMAIN textures[i].entries
           /\ cache_entries[key].texture_id = <<i - 1>>
           /\ \A j \in 1..Len(textures) :
                  key \in DOMAIN textures[j].entries => j = i
           /\ \A a \in 1..2 : actions[a].texture = textures[i].texture

\* C14 as stated (SpecFrame): get_draw_primitives changes nothing in the
\* cache; it emits nothing when the key has no entry or the crop window
\* misses the glyph, and two triangles with the texture of the atlas of
\* the entry in every other case.
C14_TwoTrianglesOrNothing ==
    [][\A key \in Keys, crop_window \in DrawCrops :
          GetDrawPrimitives(key, crop_window)
          => /\ UNCHANGED cache_vars
             /\ IF key \notin DOMAIN cache_entries
                THEN dr_out'[1].actions = <<>>
                ELSE IF CroppedOut(cache_entries[key], crop_window)
                THEN dr_out'[1].actions = <<>>
                ELSE TwoTrianglesOfHolder(key, dr_out'[1].actions)]_vars

\* C14 as amended (SpecFrame): the same for an entry that is placed; for an
\* entry without a placement (texture_id None) the call panics and emits
\* nothing.
C14_TwoTrianglesWhenPlaced ==
    [][\A key \in Keys, crop_window \in DrawCrops :
          GetDrawPrimitives(key, crop_window)
          => /\ UNCHANGED cache_vars
             /\ IF key \notin DOMAIN cache_entries
                THEN dr_out'[1] = [result |-> "none", actions |-> <<>>]
                ELSE IF cache_entries[key].texture_id = <<>>
                THEN dr_out'[1] = [result |-> "panic", actions |-> <<>>]
                ELSE IF CroppedOut(cache_entries[key], crop_window)
                THEN dr_out'[1] = [result |-> "cropped_out", actions |-> <<>>]
                ELSE /\ dr_out'[1].result = "emitted"
                     /\ TwoTrianglesOfHolder(key, dr_out'[1].actions)]_vars

\* A glyph of the second atlas was drawn through the crop window that cuts it:
\* two triangles, the first starting at the corner of the window.
C14_Witness ==
    /\ last_op.op = "get_draw_primitives"
    /\ dr_out # <<>>
    /\ dr_out[1].result = "emitted"
    /\ Len(dr_out[1].actions) = 2
    /\ Len(textures) >= 2
    /\ dr_out[1].actions[1].texture = textures[2].texture
    /\ dr_out[1].actions[1].vertices_clockwise[1].position = AsVec2(<<5, -15>>)

(***************************************************************************)
(* Claims about the crop of a drawn glyph (SpecCrop).                      *)
(***************************************************************************)
Max(a, b) == IF a > b THEN a ELSE b

Min(a, b) == IF a < b THEN a ELSE b

\* The edges <<left, top, right, bottom>> of the screen rectangle of the
\* drawn glyph, in pixels.
DrawnScreenEdges ==
    LET left == RoundF32(dr_in.position[1]) \div 100 + dr_in.bounding_box_offset[1]
        top == RoundF32(dr_in.position[2]) \div 100 + dr_in.bounding_box_offset[2]
    IN  <<left, top, left + Width(dr_in.texture_area),
          top + Height(dr_in.texture_area)>>

\* The edges of the part of it inside the crop window.
ClippedScreenEdges ==
    LET s == DrawnScreenEdges
        c == dr_in.crop_window[1]
    IN  <<Max(s[1], c.top_left[1].n), Max(s[2], c.top_left[2].n),
          Min(s[3], c.bottom_right[1].n), Min(s[4], c.bottom_right[2].n)>>

\* The texture rectangle the first triangle spans: first and third vertex.
EmittedTextureRegion ==
    RectNew(dr_out[1].actions[1].vertices_clockwise[1].texture_coord,
            dr_out[1].actions[1].vertices_clockwise[3].texture_coord)

\* C15: when a draw through a crop window emits, each edge of the emitted
\* texture rectangle lies inward of the edge of the uncropped texture
\* rectangle by (length clipped from that screen edge / screen length on the
\* axis) times the length of the texture rectangle on the axis; an edge that
\* was not clipped keeps its coordinate.
C15_TextureCropProportional ==
    (dr_out # <<>> /\ dr_out[1].result = "emitted" /\ dr_in.crop_window # <<>>)
    => LET s == DrawnScreenEdges
           i == ClippedScreenEdges
           t == TextureRegion(dr_in.texture_area)
           e == EmittedTextureRegion
           Moved(clipped, length, texture_length) ==
               F32Mul(F32(clipped, length), texture_length)
       IN  /\ F32Sub(e.top_left[1], t.top_left[1]) =
                  Moved(i[1] - s[1], s[3] - s[1], RectWidth(t))
           /\ F32Sub(t.bottom_right[1], e.bottom_right[1]) =
                  Moved(s[3] - i[3], s[3] - s[1], RectWidth(t))
           /\ F32Sub(e.top_left[2], t.top_left[2]) =
                  Moved(i[2] - s[2], s[4] - s[2], RectHeight(t))
           /\ F32Sub(t.bottom_right[2], e.bottom_right[2]) =
                  Moved(s[4] - i[4], s[4] - s[2], RectHeight(t))
           /\ i[1] = s[1] => e.top_left[1] = t.top_left[1]
           /\ i[3] = s[3] => e.bottom_right[1] = t.bottom_right[1]
           /\ i[2] = s[2] => e.top_left[2] = t.top_left[2]
           /\ i[4] = s[4] => e.bottom_right[2] = t.bottom_right[2]

\* The instance: a glyph on screen at (0,0)-(20,20) drawn through the window
\* (5,0)-(20,20): the left edge of the texture rectangle moved by a quarter
\* of its width, the right edge stayed.
C15_Witness ==
    /\ dr_out # <<>>
    /\ dr_out[1].result = "emitted"
    /\ DrawnScreenEdges = <<0, 0, 20, 20>>
    /\ dr_in.crop_window = <<CropWindow(5, 0, 20, 20)>>
    /\ F32Div(F32Sub(EmittedTextureRegion.top_left[1],
                     TextureRegion(dr_in.texture_area).top_left[1]),
              RectWidth(TextureRegion(dr_in.texture_area))) = F32(1, 4)
    /\ EmittedTextureRegion.bottom_right[1] =
           TextureRegion(dr_in.texture_area).bottom_right[1]

(***************************************************************************)
(* Claims about begin_new_frame and the rebuild of prepare_for_draw.       *)
(***************************************************************************)
\* C16 (Spec): begin_new_frame makes last_frame the keys this_frame held,
\* empties this_frame, and leaves the entries, their texture_ids and the
\* atlases as they were.
C16_BeginNewFrameSwaps ==
    [][last_op'.op = "begin_new_frame" =>
           /\ last_frame' = this_frame
           /\ this_frame' = {}
           /\ cache_entries' = cache_entries
           /\ textures' = textures]_vars

\* After a begin_new_frame: one key marked in the frame that ended is in
\* last_frame, another that was only in the old last_frame is in neither
\* generation and still has its placed entry.
C16_Witness ==
    /\ last_op.op = "begin_new_frame"
    /\ this_frame = {}
    /\ \E k \in Keys : mark_hist[k][2] /\ k \in last_frame
    /\ \E k \in Keys : /\ ~mark_hist[k][2]
                       /\ mark_hist[k][3]
                       /\ k \notin last_frame
                       /\ k \in DOMAIN cache_entries
                       /\ cache_entries[k].texture_id # <<>>

\* The last prepare_for_draw rebuilt and its rebuild placed every entry (the
\* revalidation that follows may still fail).
RebuildSucceeded ==
    /\ last_op.op = "prepare_for_draw"
    /\ last_op.rebuilt
    /\ last_op.result \in {"ok", "err_upload"}

\* C17 (Spec): after a rebuild that placed every entry, only the last atlas
\* of the cache may be without a placement (the spare); every other atlas
\* holds at least one, so no further atlas of the old pool is left.
C17_AtMostOneSpare ==
    RebuildSucceeded =>
        \A i \in 1..Len(textures) :
            textures[i].entries = EmptyMap => i = Len(textures)

\* A rebuild placed an entry in one atlas, kept one spare and discarded
\* another atlas of the pool.
C17_Witness ==
    /\ RebuildSucceeded
    /\ last_op.dropped >= 1
    /\ Len(textures) = 2
    /\ textures[1].entries # EmptyMap
    /\ textures[2].entries = EmptyMap

\* Phase 1 succeeds: in whatever order the entry map is walked, every entry
\* without a placement is appended to one of the atlases the cache has.
Phase1Succeeds ==
    \A order \in Orders(DOMAIN cache_entries) :
        TryInsertPending(order, 1, textures, cache_entries).ok

\* C18 (Spec): a prepare_for_draw whose phase 1 succeeds does not rebuild:
\* it removes no entry, creates and destroys no atlas, takes no copy and no
\* placement out of an atlas, and leaves every placed entry as it was.
C18_NoRebuildWhenPhase1Succeeds ==
    [][(last_op'.op = "prepare_for_draw" /\ Phase1Succeeds) =>
           /\ ~last_op'.rebuilt
           /\ DOMAIN cache_entries' = DOMAIN cache_entries
           /\ Len(textures') = Len(textures)
           /\ \A i \in 1..Len(textures) :
                  /\ textures'[i].texture = textures[i].texture
                  /\ textures[i].bitmap \subseteq textures'[i].bitmap
                  /\ \A k \in DOMAIN textures[i].entries :
                         /\ k \in DOMAIN textures'[i].entries
                         /\ textures'[i].entries[k] = textures[i].entries[k]
           /\ \A k \in DOMAIN cache_entries :
                  cache_entries[k].texture_id # <<>> =>
                      cache_entries'[k] = cache_entries[k]]_vars

\* A prepare_for_draw that did not rebuild uploaded an atlas that holds the
\* placements of two entries.
C18_Witness ==
    /\ last_op.op = "prepare_for_draw"
    /\ ~last_op.rebuilt
    /\ last_op.result = "ok"
    /\ last_op.uploads >= 1
    /\ clean = "prepared"
    /\ \E a, b \in DOMAIN cache_entries :
           /\ a # b
           /\ cache_entries[a].texture_id = <<0>>
           /\ cache_entries[b].texture_id = <<0>>
           /\ {a, b} \subseteq DOMAIN textures[1].entries

(***************************************************************************)
(* Claims about the selection of a free region (SpecPacker).               *)
(***************************************************************************)
\* The calls of pack_test_uneven_squares and the rectangles it expects.
UnevenSquares ==
    <<[size |-> <<14, 14>>, rect |-> URectNew(<<1, 1>>, <<15, 15>>)],
      [size |-> <<14, 30>>, rect |-> URectNew(<<1, 17>>, <<15, 47>>)],
      [size |-> <<30, 30>>, rect |-> URectNew(<<17, 17>>, <<47, 47>>)],
      [size |-> <<14, 14>>, rect |-> URectNew(<<17, 1>>, <<31, 15>>)]>>

\* C19: on a 64 x 64 packer the calls 14x14, 14x30, 30x30, 14x14 succeed at
\* (1,1)-(15,15), (1,17)-(15,47), (17,17)-(47,47) and (17,1)-(31,15): the
\* second 14x14 goes to the right of the first, into the earliest free
\* region that no later candidate undercuts in both dimensions.
C19_UnevenSquaresPlacement ==
    (/\ pk_dim = <<64, 64>>
     /\ Len(pk_log) <= Len(UnevenSquares)
     /\ \A i \in 1..Len(pk_log) : pk_log[i].size = UnevenSquares[i].size) =>
        \A i \in 1..Len(pk_log) :
            /\ pk_log[i].ok
            /\ pk_log[i].rect = UnevenSquares[i].rect

(***************************************************************************)
(* Claims about the GPU failures of prepare_for_draw.                      *)
(***************************************************************************)
\* C20 (Spec): whenever prepare_for_draw is called and the GPU refuses the
\* n-th texture creation or the n-th upload the call would make, the call
\* returns the error: after a refused creation it has created n - 1
\* textures and uploaded nothing, after a refused upload it has made n
\* uploads, the refused one included; nothing is tried a second time.
C20_GpuFailureIsReturned ==
    Alive =>
        \A order1 \in Orders(DOMAIN cache_entries),
           order2 \in HeightOrders(Retain(cache_entries, last_frame, this_frame)),
           n \in GpuFailsAt \ {0} :
            LET Returned(all_ok, no_create, no_upload) ==
                    /\ all_ok.created >= n =>
                           /\ no_create.result = "err_create"
                           /\ no_create.created = n - 1
                           /\ no_create.uploads = 0
                    /\ all_ok.uploads >= n =>
                           /\ no_upload.result = "err_upload"
                           /\ no_upload.uploads = n
                           /\ no_upload.created = all_ok.created
            IN  Returned(PrepareForDrawCall(order1, order2, 0, 0),
                         PrepareForDrawCall(order1, order2, n, 0),
                         PrepareForDrawCall(order1, order2, 0, n))

\* A prepare_for_draw returned the error of a refused texture creation
\* after its rebuild had created one atlas.
C20_Witness ==
    /\ last_op.op = "prepare_for_draw"
    /\ last_op.result = "err_create"
    /\ last_op.rebuilt
    /\ last_op.created = 1
    /\ last_op.uploads = 0
    /\ Len(textures) = 1

(***************************************************************************)
(* Claims about Rect::intersect as the crop uses it (SpecCrop).            *)
(***************************************************************************)
\* The unit squares inside the edges <<left, top, right, bottom>>.
Cells(e) == {<<x, y>> : x \in e[1]..(e[3] - 1), y \in e[2]..(e[4] - 1)}

\* The edges of a rectangle with integer corners.
EdgesOf(r) ==
    <<r.top_left[1].n, r.top_left[2].n, r.bottom_right[1].n, r.bottom_right[2].n>>

\* The rectangles of test_intersect_1 and test_intersect_2.
TestRect(left, top, right, bottom) ==
    RectNew(AsVec2(<<left, top>>), AsVec2(<<right, bottom>>))

ShapeTestsPass ==
    LET r1 == TestRect(100, 100, 200, 200)
        r2 == TestRect(100, 300, 200, 400)
        r3 == TestRect(125, 50, 175, 500)
        r4 == TestRect(100, 200, 200, 300)
    IN  /\ Intersect(r1, r2) = <<>>
        /\ Intersect(r1, r3) = <<TestRect(125, 100, 175, 200)>>
        /\ Intersect(r2, r3) = <<TestRect(125, 300, 175, 400)>>
        /\ Intersect(r1, r1) = <<r1>>
        /\ Intersect(r2, r2) = <<r2>>
        /\ Intersect(r3, r3) = <<r3>>
        /\ Intersect(r1, r4) = <<>>

AllocatedNonZero(log) ==
    /\ log # <<>>
    /\ log[Len(log)].ok
    /\ ~IsZeroSize(log[Len(log)].size)

\* The free regions the split rule leaves: region `best` of `areas` gave
\* its top-left corner to a bordered allocation of width x height.
SplitRule(areas, best, width, height) ==
    LET region == areas[best].rect
        alloc_right == region.top_left[1] + width
        alloc_bottom == region.top_left[2] + height
        underneath == URectNew(<<region.top_left[1], alloc_bottom>>,
                               region.bottom_right)
        right == URectNew(<<alloc_right, region.top_left[2]>>,
                          <<region.bottom_right[1], alloc_bottom>>)
    IN  IF IsZeroArea(right)
        THEN [areas EXCEPT ![best] = [rect |-> underneath]]
        ELSE IF ~IsZeroArea(underneath)
        THEN Append([areas EXCEPT ![best] = [rect |-> right]], [rect |-> underneath])
        ELSE [areas EXCEPT ![best] = [rect |-> right]]

\* C22: a successful non-zero allocation replaces the chosen region R by
\* the space to its right (from the allocation's right edge to R's right
\* edge, over the allocation's height) and appends the space underneath
\* (R's full width, from the allocation's bottom to R's bottom) when it is
\* not empty; with no space to the right R is replaced by the space
\* underneath; no other free region changes.
C22_SplitRule ==
    [][AllocatedNonZero(pk_log') =>
           LET size == pk_log'[Len(pk_log')].size
           IN  pk_packer'.areas =
                   SplitRule(pk_packer.areas,
                             BestArea(pk_packer.areas, 1, 0, size[1] + 2, size[2] + 2),
                             size[1] + 2, size[2] + 2)]_vars

\* A placement grown by the one-pixel border on every side.
Bordered(rect) ==
    URectNew(<<rect.top_left[1] - 1, rect.top_left[2] - 1>>,
             <<rect.bottom_right[1] + 1, rect.bottom_right[2] + 1>>)

\* Two rectangles have a region of positive area in common.
Overlap(a, b) ==
    /\ Max(a.top_left[1], b.top_left[1]) < Min(a.bottom_right[1], b.bottom_right[1])
    /\ Max(a.top_left[2], b.top_left[2]) < Min(a.bottom_right[2], b.bottom_right[2])

\* The calls of the log that allocated a non-zero size.
Allocations == {i \in 1..Len(pk_log) : pk_log[i].ok /\ ~IsZeroSize(pk_log[i].size)}

C24_PlacementHasBitmapSize ==
    [][\A key \in Keys, size \in AtlasSizes :
          (AtlasTryAppendGlyph(key, size) /\ at_last'.ok) =>
              LET area == at_texture'.entries[key].texture_area
                  best == BestArea(at_texture.packer.areas, 1, 0,
                                   size[1] + 2, size[2] + 2)
              IN  /\ Width(area) = size[1]
                  /\ Height(area) = size[2]
                  /\ ~IsZeroSize(size) =>
                         /\ best # 0
                         /\ area.top_left =
                                <<at_texture.packer.areas[best].rect.top_left[1] + 1,
                                  at_texture.packer.areas[best].rect.top_left[2] + 1>>]_vars

\* An atlas holds the placement (1,1)-(11,21) of a 10 x 20 bitmap.
C24_Witness ==
    /\ at_last.op = "try_append_glyph"
    /\ at_last.ok
    /\ \E key \in DOMAIN at_texture.entries :
           at_texture.entries[key].texture_area = URectNew(<<1, 1>>, <<11, 21>>)

(***************************************************************************)
(* Claims about the atlases of a rebuild (Spec).                           *)
(***************************************************************************)
\* The texture handles of a list of atlases.
Handles(texs) == {texs[i].texture : i \in 1..Len(texs)}

\* C25 (Spec): a rebuild that creates a texture has reactivated every atlas
\* the cache had before it, with its handle; a rebuild that leaves the
\* cache with no more atlases than it had before creates no texture.
C25_CreatesOnlyWhenPoolExhausted ==
    [][RebuildStep =>
           /\ last_op'.created >= 1 => Handles(textures) \subseteq Handles(textures')
           /\ Len(textures') <= Len(textures)
                  => last_op'.created = 0]_vars

\* The same for the rebuilds that place every entry.
C25_WhenRebuildSucceeds ==
    [][(RebuildStep /\ last_op'.result \in {"ok", "err_upload"}) =>
           /\ last_op'.created >= 1 => Handles(textures) \subseteq Handles(textures')
           /\ Len(textures') <= Len(textures)
                  => last_op'.created = 0]_vars

\* The keys whose bitmap has pixels among the placements of an atlas.
NonZeroKeys(t, entries) ==
    {k \in DOMAIN t.entries :
        k \in DOMAIN entries /\ ~IsZeroSize(entries[k].glyph_bitmap.size)}

Pending == {k \in DOMAIN cache_entries : cache_entries[k].texture_id = <<>>}

\* The lowest index from i on of a packer that accepts the size, 0 for none.
RECURSIVE LowestAccepting(_, _, _)
LowestAccepting(packers, i, size) ==
    IF i > Len(packers) THEN 0
    ELSE IF TryAllocate(packers[i], size).ok THEN i
    ELSE LowestAccepting(packers, i + 1, size)

\* The atlas each key of `order` gets when the keys are offered one after
\* the other, each to the lowest atlas that accepts it (0: to none).
RECURSIVE LowestFit(_, _, _, _)
LowestFit(order, j, packers, ids) ==
    LET Place(key, size, i) ==
            IF i = 0
            THEN LowestFit(order, j + 1, packers, [ids EXCEPT ![key] = 0])
            ELSE LowestFit(order, j + 1,
                           [packers EXCEPT ![i] = TryAllocate(packers[i], size).packer],
                           [ids EXCEPT ![key] = i])
    IN  IF j > Len(order) THEN ids
        ELSE Place(order[j], cache_entries[order[j]].glyph_bitmap.size,
                   LowestAccepting(packers, 1,
                                   cache_entries[order[j]].glyph_bitmap.size))

\* C27 (SpecThreeKeys): in a prepare_for_draw whose phase 1 succeeds, the
\* entries without a placement are offered in some order, each goes to the
\* lowest-indexed atlas whose packer accepts it and gets that index as its
\* texture_id; the entries that had a texture_id keep it and their
\* placement, and an atlas gets no placement but those of the entries
\* assigned to it.
C27_Phase1LowestAcceptingAtlas ==
    [][(last_op'.op = "prepare_for_draw" /\ ~last_op'.rebuilt) =>
           /\ \E order \in Orders(Pending) :
                  LET Assigned(ids) ==
                          \A k \in Pending :
                              /\ ids[k] # 0
                              /\ cache_entries'[k].texture_id = <<ids[k] - 1>>
                              /\ k \in DOMAIN textures'[ids[k]].entries
                  IN  Assigned(LowestFit(order, 1,
                                         [i \in 1..Len(textures) |-> textures[i].packer],
                                         [k \in Pending |-> 0]))
           /\ Len(textures') = Len(textures)
           /\ \A k \in DOMAIN cache_entries \ Pending :
                  /\ cache_entries'[k] = cache_entries[k]
                  /\ textures'[cache_entries[k].texture_id[1] + 1].entries[k] =
                         textures[cache_entries[k].texture_id[1] + 1].entries[k]
           /\ \A i \in 1..Len(textures) :
                  /\ DOMAIN textures'[i].entries =
                         DOMAIN textures[i].entries
                         \cup {k \in Pending : cache_entries'[k].texture_id = <<i - 1>>}
                  /\ (\A k \in Pending : cache_entries'[k].texture_id # <<i - 1>>)
                         => /\ textures'[i].packer = textures[i].packer
                            /\ textures'[i].bitmap = textures[i].bitmap]_vars

\* A prepare_for_draw that did not rebuild uploaded the second of two
\* atlases, which holds the placement of one entry; the first holds the
\* placement of another.
C27_Witness ==
    /\ last_op.op = "prepare_for_draw"
    /\ ~last_op.rebuilt
    /\ last_op.result = "ok"
    /\ last_op.uploads = 1
    /\ Len(textures) = 2
    /\ \E a, b \in DOMAIN cache_entries :
           /\ a # b
           /\ cache_entries[a].texture_id = <<0>>
           /\ cache_entries[b].texture_id = <<1>>
           /\ DOMAIN textures[1].entries = {a}
           /\ DOMAIN textures[2].entries = {b}

\* C28 (SpecAtlas): clear leaves the atlas with one free region that
\* covers the whole atlas, no placement, the dirty flag cleared, no pixel
\* set and the texture handle it had; its packer answers every allocation
\* as the packer of a new atlas does.
C28_ClearResetsAtlas ==
    [][at_last'.op = "clear" =>
           /\ at_texture'.packer.areas =
                  <<[rect |-> URectNew(<<0, 0>>, <<SIZE, SIZE>>)]>>
           /\ at_texture'.entries = EmptyMap
           /\ ~at_texture'.invalidated
           /\ at_texture'.bitmap = {}
           /\ at_texture'.texture = at_texture.texture
           /\ \A size \in AtlasSizes :
                  TryAllocate(at_texture'.packer, size) =
                      TryAllocate(GlyphCacheTextureNew(at_texture.texture).packer, size)]_vars

\* The atlas after a clear: as a new atlas with the same handle.
C28_Witness ==
    /\ at_last.op = "clear"
    /\ at_texture = GlyphCacheTextureNew(at_texture.texture)

(***************************************************************************)
(* Claims about the life of an entry (Spec).                               *)
(***************************************************************************)
\* C29 (Spec): as long as a key keeps its entry, the bitmap and the
\* bounding-box offset of the entry stay as they were; mark_used for a key
\* that has an entry rasterizes nothing and leaves all entries, texture_ids
\* included, unchanged.
C29_EntryNeverMutated ==
    [][/\ \A k \in DOMAIN cache_entries \cap DOMAIN cache_entries' :
              /\ cache_entries'[k].glyph_bitmap = cache_entries[k].glyph_bitmap
              /\ cache_entries'[k].bounding_box_offset =
                     cache_entries[k].bounding_box_offset
       /\ \A key \in Keys :
              (MarkUsed(key) /\ key \in DOMAIN cache_entries) =>
                  /\ last_op'.result = "ok"
                  /\ cache_entries' = cache_entries]_vars

\* A mark_used that rasterized nothing, with two keys that both get an entry
\* when first marked and whose entries are both placed.
C29_Witness ==
    /\ last_op.op = "mark_used"
    /\ last_op.result = "ok"
    /\ \A k \in Keys : /\ Storable(k)
                       /\ k \in DOMAIN cache_entries
                       /\ cache_entries[k].texture_id # <<>>

(***************************************************************************)
(* Claims about the subpixel offset of a key (SpecQuant).                  *)
(***************************************************************************)
\* The screen position of a request on an axis, in 1/100 px.
ScreenPos(req, axis) == req.position[axis] + req.screen_offset[axis]

Placed(k) ==
    /\ cache_entries[k].texture_id # <<>>
    /\ cache_entries[k].texture_id[1] < Len(textures)
    /\ k \in DOMAIN textures[cache_entries[k].texture_id[1] + 1].entries

\* C31 (SpecFrame): after a prepare_for_draw that returned Ok every entry is
\* placed, and it stays so through the draws of the frame, so that no
\* get_draw_primitives of a frame whose prepare_for_draw succeeded fails in
\* an unwrap.
C31_AllPlacedAfterPrepare ==
    /\ (last_op.op = "prepare_for_draw" /\ last_op.result = "ok")
           => \A k \in DOMAIN cache_entries : Placed(k)
    /\ (phase = "draw" /\ clean # "dirty")
           => /\ \A k \in DOMAIN cache_entries : Placed(k)
              /\ last_op.result # "panic"

\* A draw emitted the triangles of a glyph in a frame whose prepare_for_draw
\* succeeded, with two entries in the cache.
C31_Witness ==
    /\ phase = "draw"
    /\ clean # "dirty"
    /\ last_op.op = "get_draw_primitives"
    /\ last_op.result = "emitted"
    /\ Cardinality(DOMAIN cache_entries) = 2

\* C32 (Spec): in every state between two operations, also after a failed
\* prepare_for_draw, the entry map and the placement maps of the atlases
\* agree: an entry has texture_id Some(i) exactly when atlas i exists and
\* its map has the key, and no atlas has a key that has no entry.
C32_EntriesAndAtlasesAgree ==
    /\ \A k \in DOMAIN cache_entries :
           /\ cache_entries[k].texture_id # <<>>
                  => cache_entries[k].texture_id[1] < Len(textures)
           /\ \A i \in 0..(Len(textures) - 1) :
                  (cache_entries[k].texture_id = <<i>>)
                      <=> (k \in DOMAIN textures[i + 1].entries)
    /\ \A i \in 1..Len(textures) :
           DOMAIN textures[i].entries \subseteq DOMAIN cache_entries

\* A rebuild stopped at a refused texture: one entry is placed in the atlas
\* that was taken from the pool, the other entry is left without atlas.
C32_Witness ==
    /\ last_op.op = "prepare_for_draw"
    /\ last_op.result = "err_create"
    /\ \E k \in DOMAIN cache_entries : Placed(k)
    /\ \E k \in DOMAIN cache_entries : cache_entries[k].texture_id = <<>>

\* C33 (SpecFrame): a prepare_for_draw that returned an error leaves every
\* entry of the cache placed, and no get_draw_primitives of the frame fails
\* in an unwrap.
C33_UsableAfterError ==
    /\ (last_op.op = "prepare_for_draw" /\ last_op.result # "ok")
           => \A k \in DOMAIN cache_entries : Placed(k)
    /\ phase = "draw" => last_op.result # "panic"

(***************************************************************************)
(* Claims about the pixels of an atlas.                                    *)
(***************************************************************************)
\* The atlas records a placement that has pixels.
HoldsPixels(t) ==
    \E k \in DOMAIN t.entries : ~IsZeroArea(t.entries[k].texture_area)

\* C34 (SpecAtlas): an atlas that records a placement whose pixels were not
\* uploaded with success has its dirty flag set, also after a revalidate
\* whose upload failed: an atlas with placements is clean after a step only
\* if it was clean with the same placements before it, or the step is a
\* revalidate whose upload succeeded.
C34_DirtyUntilUploaded ==
    [][(HoldsPixels(at_texture') /\ ~at_texture'.invalidated)
          => \/ /\ ~at_texture.invalidated
                /\ at_texture'.entries = at_texture.entries
             \/ /\ at_last'.op = "revalidate"
                /\ at_last'.uploaded
                /\ at_last'.ok]_vars

\* C35 (SpecAtlas): in every try_append_glyph that succeeds the assertions
\* of draw_bitmap_at hold; the placement has the size of the bitmap and
\* lies inside the atlas, and the only pixels written are those of the
\* placement.
C35_DrawBitmapAtInBounds ==
    [][\A key \in Keys, size \in AtlasSizes :
          (AtlasTryAppendGlyph(key, size) /\ at_last'.ok)
          => LET area == at_texture'.entries[key].texture_area
             IN  /\ DrawBitmapAtAssertions(<<SIZE, SIZE>>, [size |-> size],
                                           area.top_left)
                 /\ Width(area) = size[1]
                 /\ Height(area) = size[2]
                 /\ area.bottom_right[1] <= SIZE
                 /\ area.bottom_right[2] <= SIZE
                 /\ at_texture'.bitmap \ at_texture.bitmap
                        \subseteq {[top_left |-> area.top_left, size |-> size]}]_vars

\* The atlas took the largest bitmap that fits it with its border.
C35_Witness ==
    /\ at_last.op = "try_append_glyph"
    /\ at_last.ok
    /\ [top_left |-> <<1, 1>>, size |-> <<1022, 1022>>] \in at_texture.bitmap

\* The pixels of copy c lie inside the rectangle `area`.
CopyInside(c, area) ==
    /\ area.top_left[1] <= c.top_left[1]
    /\ area.top_left[2] <= c.top_left[2]
    /\ c.top_left[1] + c.size[1] <= area.bottom_right[1]
    /\ c.top_left[2] + c.size[2] <= area.bottom_right[2]

\* C36 (Spec): in every atlas of the cache every pixel outside the recorded
\* placement rectangles is zero: each copy made into the atlas bitmap since
\* it was last zeroed lies inside the placement of a key of that atlas.
C36_BlankOutsidePlacements ==
    \A i \in 1..Len(textures) :
        \A c \in textures[i].bitmap :
            \E k \in DOMAIN textures[i].entries :
                CopyInside(c, textures[i].entries[k].texture_area)

\* A rebuild that created no texture placed a bitmap with pixels: the atlas
\* that holds it held pixels before, was cleared, and was filled again.
C36_Witness ==
    /\ last_op.op = "prepare_for_draw"
    /\ last_op.rebuilt
    /\ last_op.created = 0
    /\ \E i \in 1..Len(textures) : textures[i].bitmap # {}

=============================================================================
